---- MODULE Spec2Model ----
(***************************************************************************)
(* timelord: the job-lifecycle monitor of the Discovery Environment.       *)
(*                                                                         *)
(* Spec follows the driver goroutine of main() (hour-warning sweep,        *)
(* day-warning sweep, periodic sweep, kill sweep, sleep), the              *)
(* notif_statuses table behind VICEDatabaser and the JobKiller.            *)
(* HandlerSpec follows the AMQP message handler that sets the subdomain    *)
(* and planned_end_date of a job.  Times are in seconds.  Every            *)
(* collaborator call (database query, HTTP call) may fail; its outcome is  *)
(* an input of the action that makes the call.                             *)
(***************************************************************************)
EXTENDS Integers, Sequences, FiniteSets, TLC

(***************************************************************************)
(* Bounds of the model                                                     *)
(***************************************************************************)
\* the clock advances in steps of ClockStep seconds, MaxTicks times
ClockStep == 14400
MaxTicks == 1
\* how many writes to notif_statuses may fail in one behaviour
MaxWriteFaults == 1

(***************************************************************************)
(* Program constants                                                       *)
(***************************************************************************)
maxAttempts == 3
\* the -warning-interval flag (minutes) and the day interval (minutes)
warningInterval == 60
dayInterval == 1440
\* periodDuration = 14400 * time.Second
defaultPeriodSeconds == 14400
\* "if a time_limit_seconds is not set for a tool, use 72 hours"
defaultToolLimit == 259200

warningSentKey == "warningsent"
oneDayWarningKey == "onedaywarning"

\* SQL NULL, and Go's empty string for a timestamp that was NULL
Null == -1

Jobs == {"j1", "j2"}
StartDate == ClockStep
MaxNow == StartDate + MaxTicks * ClockStep

VARIABLES
    jobs,           \* the jobs table of the DE database, by job id
    tools,          \* time_limit_seconds of the tools of each job's app steps
    notif_statuses, \* the notif_statuses table: for each analysis_id, its rows in insert order
    now,            \* the wall clock (time.Now(), now())
    pc,             \* where the driver goroutine is in its loop
    jl,             \* the candidate jobs the running sweep has not processed yet
    cluster,        \* the jobs that have a deployment in the k8s cluster
    K8sEnabled,     \* JobKiller.K8sEnabled (vice.k8s-enabled)
    configured,     \* NotifsURI # "" /\ UsersURI # ""
    handlers,       \* the locals of the message-handler runs in progress
    writeFaults,    \* failed notif_statuses writes so far
    delivered,      \* the <<job, stage>> whose hour or day warning the service has accepted
                    \* (StoreFaultSpec: the <<job, time>> of the reminders it has accepted)
    deliveries,     \* the status updates in the timelord queue, not yet handed to the handler
    instances,      \* the locals of further driver instances working on the same store
    mainLocals,     \* err of main(), which the driver goroutine's closure captures, whether
                    \* main has called net.Listen, and the kill loop's failure count
    last            \* what the last step did: the locals of the loop body it ran

vars == <<jobs, tools, notif_statuses, now, pc, jl, cluster, K8sEnabled, configured,
          handlers,
          writeFaults, delivered, deliveries, instances, mainLocals, last>>

(***************************************************************************)
(* The notif_statuses table (VICEDatabaser)                                *)
(***************************************************************************)
\* a freshly inserted row: the column defaults of the migrations
NewRow(job, period) ==
    [analysis_id |-> job,
     hour_warning_sent |-> FALSE, hour_warning_failure_count |-> 0,
     day_warning_sent |-> FALSE, day_warning_failure_count |-> 0,
     kill_warning_sent |-> FALSE, kill_warning_failure_count |-> 0,
     last_periodic_warning |-> Null,
     periodic_warning_period |-> period]

\* the rows with analysis_id = id
RowsOf(t, id) == t[id]

\* getNotifStatusIDQuery: false on any error, a failed query included
AnalysisRecordExists(t, id, dbOk) ==
    dbOk /\ RowsOf(t, id) # <<>>

\* analysis_id UUID UNIQUE NOT NULL
UniqueViolation(t, id) == RowsOf(t, id) # <<>>

\* the period of the job stored as it is, whatever its value
PeriodAsGiven(periodicPeriod) == periodicPeriod

Period(periodicPeriod) ==
    IF periodicPeriod > 0 THEN periodicPeriod ELSE defaultPeriodSeconds

\* the insert without the UNIQUE constraint on analysis_id
AddNotifRecordNoUnique(t, id, periodicPeriod, dbOk) ==
    IF ~dbOk
    THEN [err |-> TRUE, table |-> t]
    ELSE [err |-> FALSE,
          table |-> [t EXCEPT ![id] = Append(@, NewRow(id, Period(periodicPeriod)))]]

\* the insert as an upsert that resets an existing row
AddNotifRecordUpsert(t, id, periodicPeriod, dbOk) ==
    IF ~dbOk
    THEN [err |-> TRUE, table |-> t]
    ELSE [err |-> FALSE,
          table |-> [t EXCEPT ![id] = <<NewRow(id, Period(periodicPeriod))>>]]

\* insert into notif_statuses (analysis_id, external_id, periodic_warning_period):
\* "%d seconds" of job.PeriodicPeriod when that is positive, "4 hours" otherwise
AddNotifRecord(t, id, periodicPeriod, dbOk) ==
    IF ~dbOk \/ UniqueViolation(t, id)
    THEN [err |-> TRUE, table |-> t]
    ELSE [err |-> FALSE,
          table |-> [t EXCEPT ![id] = Append(@, NewRow(id, Period(periodicPeriod)))]]

NoRow == [analysis_id |-> "none"]

\* notifStatusQuery: QueryRow scans the first matching row; none is sql.ErrNoRows.
\* last_periodic_warning is coalesced to the epoch, the period to 0 seconds.
NotifStatuses(t, id, dbOk) ==
    IF ~dbOk \/ RowsOf(t, id) = <<>>
    THEN [err |-> TRUE, row |-> NoRow]
    ELSE [err |-> FALSE,
          row |-> [Head(RowsOf(t, id)) EXCEPT !.last_periodic_warning =
                                                 IF @ = Null THEN 0 ELSE @]]

\* update notif_statuses set <column> = $1, without the where clause
UpdateColumnEveryRow(t, id, column, value) ==
    [a \in DOMAIN t |-> [i \in DOMAIN t[a] |-> [t[a][i] EXCEPT ![column] = value]]]

\* update notif_statuses set <column> = $1 where analysis_id = $2
UpdateColumn(t, id, column, value) ==
    [t EXCEPT ![id] = [i \in DOMAIN @ |-> [@[i] EXCEPT ![column] = value]]]

SetHourWarningSent(t, id, wasSent) == UpdateColumn(t, id, "hour_warning_sent", wasSent)
SetDayWarningSent(t, id, wasSent) == UpdateColumn(t, id, "day_warning_sent", wasSent)
SetKillWarningSent(t, id, wasSent) == UpdateColumn(t, id, "kill_warning_sent", wasSent)
SetHourWarningFailureCount(t, id, failureCount) ==
    UpdateColumn(t, id, "hour_warning_failure_count", failureCount)
SetDayWarningFailureCount(t, id, failureCount) ==
    UpdateColumn(t, id, "day_warning_failure_count", failureCount)
SetKillWarningFailureCount(t, id, failureCount) ==
    UpdateColumn(t, id, "kill_warning_failure_count", failureCount)
UpdateLastPeriodicWarning(t, id, ts) == UpdateColumn(t, id, "last_periodic_warning", ts)

(***************************************************************************)
(* The candidate queries (analyses.go)                                     *)
(***************************************************************************)
\* jobWarningsQuery: status = $1 and planned_end_date > $2 and planned_end_date <= $3,
\* with $2 = now and $3 = now.Add(minutes * time.Minute); NULL compares to nothing
JobKillWarnings(jt, t, minutes) ==
    {j \in Jobs : /\ jt[j].status = "Running"
                  /\ jt[j].planned_end_date # Null
                  /\ jt[j].planned_end_date > t
                  /\ jt[j].planned_end_date <= t + minutes * 60}

\* a kill query that takes a NULL planned end date for one that has passed
JobsToKillNullIsPast(jt, t) ==
    {j \in Jobs : /\ jt[j].status = "Running"
                  /\ \/ jt[j].planned_end_date = Null
                     \/ jt[j].planned_end_date <= t}

\* jobsToKillQuery: status = $1 and planned_end_date <= $2
JobsToKill(jt, t) ==
    {j \in Jobs : /\ jt[j].status = "Running"
                  /\ jt[j].planned_end_date # Null
                  /\ jt[j].planned_end_date <= t}

\* periodicWarningsQuery: jobs LEFT JOIN notif_statuses, status = $1 and
\* (last_periodic_warning is null or
\*  last_periodic_warning < now() - coalesce(periodic_warning_period, '4 hours'))
JobPeriodicWarningsAtOrAfter(jt, ns, t) ==
    {j \in Jobs : /\ jt[j].status = "Running"
                  /\ \/ RowsOf(ns, j) = <<>>
                     \/ \E i \in DOMAIN RowsOf(ns, j) :
                           LET row == RowsOf(ns, j)[i] IN
                           \/ row.last_periodic_warning = Null
                           \/ row.last_periodic_warning <= t - row.periodic_warning_period}

JobPeriodicWarnings(jt, ns, t) ==
    {j \in Jobs : /\ jt[j].status = "Running"
                  /\ \/ RowsOf(ns, j) = <<>>
                     \/ \E i \in DOMAIN RowsOf(ns, j) :
                           LET row == RowsOf(ns, j)[i] IN
                           \/ row.last_periodic_warning = Null
                           \/ row.last_periodic_warning < t - row.periodic_warning_period}

(***************************************************************************)
(* Notifications (main.go, notifications.go, users.go)                     *)
(***************************************************************************)
UserReplies == {"200", "non200", "neterr"}
PostReplies == {"2xx", "5xx", "neterr"}

\* User.Get: a transport error is returned; a status other than 200 returns
\* errors.Wrapf(err, ...) with err = nil, which is nil
UserGet(reply) == [err |-> reply = "neterr"]

\* Notification.Send: only a transport error is an error; the response status
\* is logged by sendNotif, not examined
NotificationSend(reply) == [err |-> reply = "neterr"]

\* a sendNotif that does not look at the URIs
sendNotifUnchecked(isConfigured, userReply, postReply) ==
    IF UserGet(userReply).err
    THEN [err |-> TRUE, lookup |-> userReply, posted |-> FALSE, accepted |-> FALSE]
    ELSE IF NotificationSend(postReply).err
    THEN [err |-> TRUE, lookup |-> userReply, posted |-> TRUE, accepted |-> FALSE]
    ELSE [err |-> FALSE, lookup |-> userReply, posted |-> TRUE, accepted |-> postReply = "2xx"]

\* sendNotif: err, what the user directory answered to the lookup (if it was
\* asked), whether the POST to the notification service was made, and whether
\* the notification service accepted it
sendNotif(isConfigured, userReply, postReply) ==
    IF ~isConfigured
    THEN [err |-> FALSE, lookup |-> "none", posted |-> FALSE, accepted |-> FALSE]
    ELSE IF UserGet(userReply).err
    THEN [err |-> TRUE, lookup |-> userReply, posted |-> FALSE, accepted |-> FALSE]
    ELSE IF NotificationSend(postReply).err
    THEN [err |-> TRUE, lookup |-> userReply, posted |-> TRUE, accepted |-> FALSE]
    ELSE [err |-> FALSE, lookup |-> userReply, posted |-> TRUE, accepted |-> postReply = "2xx"]

(***************************************************************************)
(* The locals of one loop body, kept in the variable last                  *)
(***************************************************************************)
NoStep ==
    [op |-> "none", job |-> "none",
     addErr |-> FALSE,       \* AddNotifRecord was called and returned an error
     reached |-> FALSE,      \* the notif_statuses row was read
     sendInvoked |-> FALSE,  \* Send*Notification was called
     sendErr |-> FALSE,      \* ... and returned an error
     lookup |-> "none",      \* what the user directory answered to its lookup
     accepted |-> FALSE,     \* the notification service accepted the POST
     again |-> FALSE,        \* ... and had accepted one for this job and stage before
     cntWrite |-> FALSE,     \* the failure count setter was called
     cntErr |-> FALSE,
     sentWrite |-> FALSE,    \* the sent-flag (or timestamp) setter was called
     sentErr |-> FALSE,
     killInvoked |-> FALSE,  \* KillJob was called
     killErr |-> FALSE,
     listed |-> FALSE,       \* AdminListing was called and answered
     found |-> FALSE,        \* ... with at least one deployment
     termIssued |-> FALSE,   \* the stop / save-and-exit request was made
     completed |-> FALSE,    \* the job was reported Completed
     ensureCalled |-> FALSE, \* EnsurePlannedEndDate was called
     pedArg |-> Null,        \* ... with this analysis.PlannedEndDate
     ensureErr |-> FALSE,    \* ... and returned an error
     pedWrite |-> FALSE,     \* setPlannedEndDate was called
     dbErr |-> FALSE,        \* the database failed a statement of EnsurePlannedEndDate
     invocation |-> "none",  \* update.Job.InvocationID of the event handled
     state |-> "none",       \* update.State of the event handled
     queryErr |-> FALSE]     \* the candidate query of a sweep returned an error

\* outcomes of the collaborator calls of one loop body; a call that is not
\* reached after an earlier failure has no outcome of its own
Outcomes ==
    {o \in [existsOk : BOOLEAN, addOk : BOOLEAN, readOk : BOOLEAN,
            user : UserReplies, post : PostReplies,
            cntOk : BOOLEAN, sentOk : BOOLEAN,
            listOk : BOOLEAN, termOk : BOOLEAN] :
        LET dbDown == ~o.addOk \/ ~o.readOk
            killDown == ~o.listOk \/ ~o.termOk
            sendDown == o.user = "neterr" \/ o.post = "neterr"
        IN  /\ ~o.addOk => o.readOk
            /\ ~o.listOk => o.termOk
            /\ o.user = "neterr" => o.post = "2xx"
            /\ dbDown => ~killDown /\ o.user = "200" /\ o.post = "2xx" /\ o.cntOk /\ o.sentOk
            /\ killDown => o.user = "200" /\ o.post = "2xx"
            /\ ~sendDown /\ ~killDown => o.cntOk}

\* the outcomes of a loop body that makes no call to the JobKiller
WarningOutcomes == {o \in Outcomes : o.listOk /\ o.termOk}

\* ensureNotifRecord
ensureNotifRecord(t, id, periodicPeriod, o) ==
    IF ~AnalysisRecordExists(t, id, o.existsOk)
    THEN AddNotifRecord(t, id, periodicPeriod, o.addOk)
    ELSE [err |-> FALSE, table |-> t]

(***************************************************************************)
(* sendWarning: the body of the loop over the warning candidates           *)
(***************************************************************************)
\* the notification is sent whatever the sent flag says
NotSentAlways(wasSent) == TRUE

\* if !wasSent
NotSent(wasSent) == ~wasSent

\* if err == nil || failureCount >= maxAttempts
MarkSent(err, failureCount) == ~err \/ failureCount >= maxAttempts

WasSentOf(row, warningKey) ==
    IF warningKey = warningSentKey THEN row.hour_warning_sent ELSE row.day_warning_sent

FailureCountOf(row, warningKey) ==
    IF warningKey = warningSentKey THEN row.hour_warning_failure_count
                                   ELSE row.day_warning_failure_count

updateWarningSent(t, id, warningKey, wasSent) ==
    IF warningKey = warningSentKey THEN SetHourWarningSent(t, id, wasSent)
                                   ELSE SetDayWarningSent(t, id, wasSent)

updateFailureCount(t, id, warningKey, failureCount) ==
    IF warningKey = warningSentKey THEN SetHourWarningFailureCount(t, id, failureCount)
                                   ELSE SetDayWarningFailureCount(t, id, failureCount)

\* SendWarningNotification: the planned end date of a candidate parses, so the
\* result is sendNotif's
SendWarningNotification(isConfigured, o) == sendNotif(isConfigured, o.user, o.post)

\* one iteration of "for _, j := range jobs" in sendWarning
sendWarningJob(t, id, periodicPeriod, warningKey, isConfigured, o) ==
    LET op == IF warningKey = warningSentKey THEN "hour" ELSE "day"
        log0 == [NoStep EXCEPT !.op = op, !.job = id]
        e == ensureNotifRecord(t, id, periodicPeriod, o)
    IN
    IF e.err THEN [table |-> e.table, log |-> [log0 EXCEPT !.addErr = TRUE]]
    ELSE
    LET r == NotifStatuses(e.table, id, o.readOk) IN
    IF r.err THEN [table |-> e.table, log |-> log0]
    ELSE
    LET wasSent == WasSentOf(r.row, warningKey)
        log1 == [log0 EXCEPT !.reached = TRUE]
    IN
    IF ~NotSent(wasSent) THEN [table |-> e.table, log |-> log1]
    ELSE
    LET n == SendWarningNotification(isConfigured, o)
        failureCount == IF n.err THEN FailureCountOf(r.row, warningKey) + 1
                                 ELSE FailureCountOf(r.row, warningKey)
        \* err = updateFailureCount(...) overwrites the error of the send
        t1 == IF n.err /\ o.cntOk
              THEN updateFailureCount(e.table, id, warningKey, failureCount)
              ELSE e.table
        err == IF n.err THEN ~o.cntOk ELSE FALSE
        mark == MarkSent(err, failureCount)
        t2 == IF mark /\ o.sentOk THEN updateWarningSent(t1, id, warningKey, TRUE) ELSE t1
    IN
    [table |-> t2,
     log |-> [log1 EXCEPT !.sendInvoked = TRUE, !.sendErr = n.err,
                          !.lookup = n.lookup,
                          !.accepted = n.accepted,
                          !.cntWrite = n.err, !.cntErr = n.err /\ ~o.cntOk,
                          !.sentWrite = mark, !.sentErr = mark /\ ~o.sentOk]]

(***************************************************************************)
(* sendPeriodic: the body of the loop over the periodic candidates         *)
(***************************************************************************)
\* periodDuration = 14400 * time.Second, unless the row's period is positive
PeriodDuration(row) ==
    IF row.periodic_warning_period > 0 THEN row.periodic_warning_period
                                       ELSE defaultPeriodSeconds

\* the later of the start date and the last periodic warning
ComparisonTimestamp(row, startDate) ==
    IF row.last_periodic_warning > startDate THEN row.last_periodic_warning
                                             ELSE startDate

\* the reminder is due whenever the job is a candidate
PeriodicDueAlways(row, startDate, t) == TRUE

\* comparisonTimestamp.Add(periodDuration).Before(now)
PeriodicDue(row, startDate, t) ==
    ComparisonTimestamp(row, startDate) + PeriodDuration(row) < t

\* SendPeriodicNotification: getJobDuration parses the start date, then sendNotif
SendPeriodicNotification(isConfigured, o) == sendNotif(isConfigured, o.user, o.post)

\* a loop body that records the time of the reminder although the send failed
sendPeriodicJobStamped(t, id, job, clock, isConfigured, o) ==
    LET log0 == [NoStep EXCEPT !.op = "periodic", !.job = id]
        e == ensureNotifRecord(t, id, job.periodic_period, o)
    IN
    IF e.err THEN [table |-> e.table, log |-> [log0 EXCEPT !.addErr = TRUE]]
    ELSE
    LET r == NotifStatuses(e.table, id, o.readOk) IN
    IF r.err THEN [table |-> e.table, log |-> log0]
    ELSE
    LET log1 == [log0 EXCEPT !.reached = TRUE] IN
    IF ~PeriodicDue(r.row, job.start_date, clock) THEN [table |-> e.table, log |-> log1]
    ELSE
    LET n == SendPeriodicNotification(isConfigured, o) IN
    [table |-> IF o.sentOk THEN UpdateLastPeriodicWarning(e.table, id, clock)
                           ELSE e.table,
     log |-> [log1 EXCEPT !.sendInvoked = TRUE, !.sendErr = n.err,
                          !.lookup = n.lookup,
                          !.accepted = n.accepted,
                          !.sentWrite = TRUE, !.sentErr = ~o.sentOk]]

\* one iteration of "for _, j := range jobs" in sendPeriodic
sendPeriodicJob(t, id, job, clock, isConfigured, o) ==
    LET log0 == [NoStep EXCEPT !.op = "periodic", !.job = id]
        e == ensureNotifRecord(t, id, job.periodic_period, o)
    IN
    IF e.err THEN [table |-> e.table, log |-> [log0 EXCEPT !.addErr = TRUE]]
    ELSE
    LET r == NotifStatuses(e.table, id, o.readOk) IN
    IF r.err THEN [table |-> e.table, log |-> log0]
    ELSE
    LET log1 == [log0 EXCEPT !.reached = TRUE] IN
    IF ~PeriodicDue(r.row, job.start_date, clock) THEN [table |-> e.table, log |-> log1]
    ELSE
    LET n == SendPeriodicNotification(isConfigured, o) IN
    IF n.err
    THEN [table |-> e.table,
          log |-> [log1 EXCEPT !.sendInvoked = TRUE, !.sendErr = TRUE,
                               !.lookup = n.lookup]]
    ELSE [table |-> IF o.sentOk THEN UpdateLastPeriodicWarning(e.table, id, clock)
                                ELSE e.table,
          log |-> [log1 EXCEPT !.sendInvoked = TRUE, !.accepted = n.accepted,
                               !.lookup = n.lookup,
                               !.sentWrite = TRUE, !.sentErr = ~o.sentOk]]

(***************************************************************************)
(* JobKiller                                                               *)
(***************************************************************************)
\* a check that takes every listing that is answered for a deployment
checkForAnalysisListed(inCluster, o) ==
    IF ~o.listOk THEN [err |-> TRUE, found |-> FALSE]
                 ELSE [err |-> FALSE, found |-> TRUE]

\* checkForAnalysisInCluster: AdminListing, then len(listing.Deployments) > 0
checkForAnalysisInCluster(inCluster, o) ==
    IF ~o.listOk THEN [err |-> TRUE, found |-> FALSE]
                 ELSE [err |-> FALSE, found |-> inCluster]

\* killK8sJob: terminate only an analysis that is in the cluster; one that is
\* not is left alone and nil is returned
killK8sJob(inCluster, o) ==
    LET c == checkForAnalysisInCluster(inCluster, o) IN
    IF c.err THEN [err |-> TRUE, listed |-> FALSE, found |-> FALSE, termIssued |-> FALSE]
    ELSE IF c.found
    THEN [err |-> ~o.termOk, listed |-> TRUE, found |-> TRUE, termIssued |-> TRUE]
    ELSE [err |-> FALSE, listed |-> TRUE, found |-> FALSE, termIssued |-> FALSE]

\* killCondorJob: StopAnalyses
killCondorJob(o) ==
    [err |-> ~o.termOk, listed |-> FALSE, found |-> FALSE, termIssued |-> TRUE]

KillJob(k8s, inCluster, o) ==
    IF k8s THEN killK8sJob(inCluster, o) ELSE killCondorJob(o)

(***************************************************************************)
(* The kill sweep of the driver: the body of "for _, j := range jl"        *)
(***************************************************************************)
\* SendKillNotification: the planned end date of a candidate parses, so the
\* result is sendNotif's
SendKillNotification(isConfigured, o) == sendNotif(isConfigured, o.user, o.post)

\* if !notifStatuses.KillWarningSent
KillPending(row) == ~row.kill_warning_sent

killJobBody(t, id, periodicPeriod, k8s, inCluster, isConfigured, o) ==
    LET log0 == [NoStep EXCEPT !.op = "kill", !.job = id]
        e == ensureNotifRecord(t, id, periodicPeriod, o)
    IN
    IF e.err THEN [table |-> e.table, log |-> [log0 EXCEPT !.addErr = TRUE]]
    ELSE
    LET r == NotifStatuses(e.table, id, o.readOk) IN
    IF r.err THEN [table |-> e.table, log |-> log0]
    ELSE
    LET log1 == [log0 EXCEPT !.reached = TRUE] IN
    IF ~KillPending(r.row) THEN [table |-> e.table, log |-> log1]
    ELSE
    LET k == KillJob(k8s, inCluster, o)
        \* the notification is sent in the else branch of "if err != nil"
        n == IF k.err THEN [err |-> TRUE, lookup |-> "none", posted |-> FALSE,
                            accepted |-> FALSE]
                      ELSE SendKillNotification(isConfigured, o)
        log2 == [log1 EXCEPT !.killInvoked = TRUE, !.killErr = k.err,
                             !.listed = k.listed, !.found = k.found,
                             !.termIssued = k.termIssued,
                             !.sendInvoked = ~k.err, !.sendErr = ~k.err /\ n.err,
                             !.lookup = n.lookup,
                             !.accepted = n.accepted]
        failureCount == IF n.err THEN r.row.kill_warning_failure_count + 1
                                 ELSE r.row.kill_warning_failure_count
    IN
    IF n.err /\ ~o.cntOk
    THEN [table |-> e.table, log |-> [log2 EXCEPT !.cntWrite = TRUE, !.cntErr = TRUE]]
    ELSE
    LET t1 == IF n.err THEN SetKillWarningFailureCount(e.table, id, failureCount)
                       ELSE e.table
        \* err is nil here: the send succeeded or the count was written
        mark == MarkSent(FALSE, failureCount)
        t2 == IF mark /\ o.sentOk THEN SetKillWarningSent(t1, id, TRUE) ELSE t1
    IN
    [table |-> t2,
     log |-> [log2 EXCEPT !.cntWrite = n.err,
                          !.sentWrite = mark, !.sentErr = mark /\ ~o.sentOk]]

(***************************************************************************)
(* The time-limit estimator and the message handler (analyses.go)          *)
(***************************************************************************)
RECURSIVE SumLimits(_)
\* getTimeLimitQuery: sum(CASE WHEN time_limit_seconds > 0 THEN time_limit_seconds
\*                             ELSE 259200 END)
SumLimits(ls) ==
    IF ls = <<>> THEN 0
    ELSE (IF Head(ls) > 0 THEN Head(ls) ELSE defaultToolLimit) + SumLimits(Tail(ls))

\* getTimeLimit: the sum over no rows is NULL, which does not scan into an int64
getTimeLimit(ls, dbOk) ==
    IF ~dbOk \/ ls = <<>> THEN [err |-> TRUE, seconds |-> 0]
                          ELSE [err |-> FALSE, seconds |-> SumLimits(ls)]

\* outcomes of the queries and updates of one run of the message handler; a
\* call that is not reached after an earlier failure has no outcome of its own
HandlerOutcomes ==
    {o \in [lookupOk : BOOLEAN, typeOk : BOOLEAN, userOk : BOOLEAN, subOk : BOOLEAN,
            limitOk : BOOLEAN, setOk : BOOLEAN] :
        /\ ~o.lookupOk \/ ~o.typeOk => o.userOk /\ o.subOk /\ o.limitOk /\ o.setOk
        /\ ~o.lookupOk => o.typeOk
        /\ ~o.userOk => o.subOk
        /\ ~o.limitOk => o.setOk}

\* the offset of time.Local from UTC, in seconds
LocalOffset == -25200

\* time.Parse: the timestamp read as UTC
ParseInUTC(ts) == ts

\* time.ParseInLocation(TimestampFromDBFormat, ts, time.Local): the instant, in
\* seconds since the epoch, at which the local wall clock shows ts
ParseInLocation(ts) == ts - LocalOffset

\* time.Unix(0, sdnano).Add(time.Duration(timeLimitSeconds) * time.Second)
\*     .UnixNano() / 1000000: milliseconds since the epoch
EndDateMillis(startDate, timeLimitSeconds) ==
    ParseInLocation(startDate) * 1000 + timeLimitSeconds * 1000

\* setPlannedEndDate: time.UnixMilli(millisSinceEpoch) formatted as local wall
\* clock with its offset; the timestamp column keeps the wall clock
FormatPlannedEndDate(millisSinceEpoch) == millisSinceEpoch \div 1000 + LocalOffset

\* time.ParseInLocation(TimestampFromDBFormat, analysis.StartDate, time.Local):
\* lookupByExternalID leaves StartDate "" when jobs.start_date is NULL, which
\* does not parse; a date it has formatted does
StartDateParses(startDate) == startDate # Null

\* EnsurePlannedEndDate computes and writes the date although one is set
EnsurePlannedEndDateAlways(analysis, ls, o) ==
    LET l == getTimeLimit(ls, o.limitOk) IN
    IF ~StartDateParses(analysis.start_date) \/ l.err THEN [err |-> TRUE, write |-> FALSE, value |-> Null]
    ELSE [err |-> ~o.setOk, write |-> TRUE,
          value |-> FormatPlannedEndDate(EndDateMillis(analysis.start_date, l.seconds))]

\* EnsurePlannedEndDate keeps a failed setPlannedEndDate to itself
EnsurePlannedEndDateSilent(analysis, ls, o) ==
    IF analysis.planned_end_date # Null
    THEN [err |-> FALSE, write |-> FALSE, value |-> Null]
    ELSE IF ~StartDateParses(analysis.start_date)
    THEN [err |-> TRUE, write |-> FALSE, value |-> Null]
    ELSE LET l == getTimeLimit(ls, o.limitOk) IN
         IF l.err THEN [err |-> TRUE, write |-> FALSE, value |-> Null]
         ELSE [err |-> FALSE, write |-> o.setOk,
               value |-> FormatPlannedEndDate(EndDateMillis(analysis.start_date,
                                                            l.seconds))]

\* EnsurePlannedEndDate: err, whether setPlannedEndDate was called, and with
\* which value
EnsurePlannedEndDate(analysis, ls, o) ==
    IF analysis.planned_end_date # Null
    THEN [err |-> FALSE, write |-> FALSE, value |-> Null]
    ELSE IF ~StartDateParses(analysis.start_date)
    THEN [err |-> TRUE, write |-> FALSE, value |-> Null]
    ELSE LET l == getTimeLimit(ls, o.limitOk) IN
         IF l.err THEN [err |-> TRUE, write |-> FALSE, value |-> Null]
         ELSE [err |-> ~o.setOk, write |-> TRUE,
               value |-> FormatPlannedEndDate(EndDateMillis(analysis.start_date,
                                                            l.seconds))]

\* generateSubdomain: a digest of the user id and the external id
generateSubdomain(id) == "a" \o id

\* EnsureSubdomain: err, and the subdomain written ("" when none is)
EnsureSubdomain(analysis, id, o) ==
    IF analysis.subdomain = ""
    THEN IF ~o.userOk \/ ~o.subOk THEN [err |-> TRUE, value |-> ""]
         ELSE [err |-> FALSE, value |-> generateSubdomain(id)]
    ELSE [err |-> FALSE, value |-> ""]

\* the runs of the message handler that can be in progress at once, and the
\* locals of a run: where it is, and the analysis as lookupByExternalID read it
InstanceIds == {"d1", "d2"}
\* the locals of a driver instance between two loop bodies; sent is not a local
\* of the code: it records the <<job, warning key>> whose warning the instance
\* has had accepted by the notification service
IdleInstance(sent) ==
    [at |-> "idle", job |-> "none", key |-> "none", wasSent |-> FALSE, failureCount |-> 0,
     sent |-> sent]
NoInstances == [d \in InstanceIds |-> IdleInstance({})]

\* var ( err error ... ) of main() before the goroutines start
NoMainLocals == [err |-> FALSE, listening |-> FALSE, failureCount |-> 0]

HandlerIds == {"h1", "h2"}
Idle == [at |-> "idle"]
NoHandlers == [h \in HandlerIds |-> Idle]

(***************************************************************************)
(* Initial state                                                           *)
(***************************************************************************)
OneShot == {"hour", "day", "kill"}
WarningStages == {"hour", "day"}

\* j1 is inside the hour window (and so inside the day window) from the start
\* and past its planned end date one clock step later; j2 has just started:
\* its planned end date is not set yet, no tool of its app has a time limit,
\* and it asks for a periodic reminder every hour
InitJobs ==
    [j \in Jobs |->
        IF j = "j1"
        THEN [status |-> "Running", start_date |-> StartDate,
              planned_end_date |-> StartDate + warningInterval * 60,
              subdomain |-> generateSubdomain(j), periodic_period |-> 0,
              interactive |-> TRUE]
        ELSE [status |-> "Running", start_date |-> StartDate,
              planned_end_date |-> Null,
              subdomain |-> "", periodic_period |-> 3600,
              interactive |-> TRUE]]

InitTools == [j \in Jobs |-> IF j = "j1" THEN <<3600>> ELSE <<0>>]

Init ==
    /\ jobs = InitJobs
    /\ tools = InitTools
    /\ notif_statuses = [j \in Jobs |-> <<>>]
    /\ now = StartDate
    /\ pc = "hour"
    /\ jl = {}
    /\ cluster = Jobs
    /\ K8sEnabled \in BOOLEAN
    /\ configured = TRUE
    /\ handlers = NoHandlers
    /\ writeFaults = 0
    /\ delivered = {}
    /\ deliveries = {}
    /\ instances = NoInstances
    /\ mainLocals = NoMainLocals
    /\ last = NoStep

(***************************************************************************)
(* The driver goroutine of main()                                          *)
(***************************************************************************)
Faults(log) == (IF log.cntErr THEN 1 ELSE 0) + (IF log.sentErr THEN 1 ELSE 0)

\* the effect of one loop body: the table it leaves, its locals, and the
\* bookkeeping of what was delivered
Commit(res) ==
    /\ writeFaults + Faults(res.log) <= MaxWriteFaults
    /\ writeFaults' = writeFaults + Faults(res.log)
    /\ notif_statuses' = res.table
    /\ last' = [res.log EXCEPT
                    !.again = res.log.accepted /\ <<res.log.job, res.log.op>> \in delivered]
    /\ delivered' = IF res.log.accepted /\ res.log.op \in WarningStages
                    THEN delivered \cup {<<res.log.job, res.log.op>>}
                                        ELSE delivered

\* a driver that goes back to the hour-warning sweep after the day-warning sweep
AfterLoopRepeat(loop) ==
    CASE loop = "hourLoop" -> "day"
      [] loop = "dayLoop" -> "hour"
      [] loop = "periodicLoop" -> "kill"
      [] loop = "killLoop" -> "sleep"

\* a call of the loop body has returned an error
BodyFailed(log) ==
    \/ log.addErr
    \/ log.op # "none" /\ ~log.addErr /\ ~log.reached
    \/ log.sendErr \/ log.killErr \/ log.cntErr \/ log.sentErr

\* the statement after the loop that pc names
AfterLoop(loop) ==
    CASE loop = "hourLoop" -> "day"
      [] loop = "dayLoop" -> "periodic"
      [] loop = "periodicLoop" -> "kill"
      [] loop = "killLoop" -> "sleep"

\* a driver that ends when a candidate query fails
QueryFatal(at, loop, candidates, onError) ==
    /\ pc = at
    /\ \E ok \in BOOLEAN :
          IF ok
          THEN /\ jl' = candidates
               /\ pc' = IF candidates = {} THEN AfterLoop(loop) ELSE loop
          ELSE /\ jl' = {}
               /\ pc' = "exit"
    /\ last' = NoStep
    /\ UNCHANGED <<jobs, tools, notif_statuses, now, cluster, K8sEnabled, configured, handlers,
                   writeFaults, delivered, deliveries, instances, mainLocals>>

\* a driver that gives up the rest of the iteration when a candidate query fails
QueryEndsIteration(at, loop, candidates, onError) ==
    /\ pc = at
    /\ \E ok \in BOOLEAN :
          /\ IF ok
             THEN /\ jl' = candidates
                  /\ pc' = IF candidates = {} THEN AfterLoop(loop) ELSE loop
             ELSE /\ jl' = {}
                  /\ pc' = "sleep"
          /\ last' = [NoStep EXCEPT !.queryErr = ~ok]
    /\ UNCHANGED <<jobs, tools, notif_statuses, now, cluster, K8sEnabled, configured, handlers,
                   writeFaults, delivered, deliveries, instances, mainLocals>>

\* the candidate query of a sweep: on an error the sweep is over
Query(at, loop, candidates, onError) ==
    /\ pc = at
    /\ \E ok \in BOOLEAN :
          /\ IF ok
             THEN /\ jl' = candidates
                  /\ pc' = IF candidates = {} THEN AfterLoop(loop) ELSE loop
             ELSE /\ jl' = {}
                  /\ pc' = onError
          /\ last' = [NoStep EXCEPT !.queryErr = ~ok]
    /\ UNCHANGED <<jobs, tools, notif_statuses, now, cluster, K8sEnabled, configured, handlers,
                   writeFaults, delivered, deliveries, instances, mainLocals>>

\* a loop that is left when the body of a candidate has met an error
AdvanceOrAbort(loop, j) ==
    /\ jl' = IF BodyFailed(last') THEN {} ELSE jl \ {j}
    /\ pc' = IF jl' = {} THEN AfterLoop(loop) ELSE loop
    /\ UNCHANGED <<jobs, tools, now, cluster, K8sEnabled, configured, handlers, deliveries, instances, mainLocals>>

\* the loop moves to its next candidate, or ends
Advance(loop, j) ==
    /\ jl' = jl \ {j}
    /\ pc' = IF jl \ {j} = {} THEN AfterLoop(loop) ELSE loop
    /\ UNCHANGED <<jobs, tools, now, cluster, K8sEnabled, configured, handlers, deliveries, instances, mainLocals>>

\* sendWarning(ctx, db, vicedb, *warningInterval, *warningSentKey)
HourWarningQuery ==
    Query("hour", "hourLoop", JobKillWarnings(jobs, now, warningInterval), "day")

HourWarningJob ==
    /\ pc = "hourLoop"
    /\ \E j \in jl, o \in WarningOutcomes :
          /\ Commit(sendWarningJob(notif_statuses, j, jobs[j].periodic_period,
                                   warningSentKey, configured, o))
          /\ Advance("hourLoop", j)

\* sendWarning(ctx, db, vicedb, 1440, oneDayWarningKey)
DayWarningQuery ==
    Query("day", "dayLoop", JobKillWarnings(jobs, now, dayInterval), "periodic")

DayWarningJob ==
    /\ pc = "dayLoop"
    /\ \E j \in jl, o \in WarningOutcomes :
          /\ Commit(sendWarningJob(notif_statuses, j, jobs[j].periodic_period,
                                   oneDayWarningKey, configured, o))
          /\ Advance("dayLoop", j)

\* sendPeriodic(ctx, db, vicedb)
PeriodicQuery ==
    Query("periodic", "periodicLoop", JobPeriodicWarnings(jobs, notif_statuses, now), "kill")

PeriodicJob ==
    /\ pc = "periodicLoop"
    /\ \E j \in jl, o \in WarningOutcomes :
          /\ Commit(sendPeriodicJob(notif_statuses, j, jobs[j], now, configured, o))
          /\ Advance("periodicLoop", j)

\* jl, err = JobsToKill(ctx, db); on an error the loop continues with its next
\* iteration
KillQuery ==
    Query("kill", "killLoop", JobsToKill(jobs, now), "hour")

KillJobStep ==
    /\ pc = "killLoop"
    /\ \E j \in jl, o \in Outcomes :
          /\ Commit(killJobBody(notif_statuses, j, jobs[j].periodic_period,
                                K8sEnabled, j \in cluster, configured, o))
          /\ Advance("killLoop", j)

\* time.Sleep(time.Second * 10)
Sleep ==
    /\ pc = "sleep"
    /\ pc' = "hour"
    /\ last' = NoStep
    /\ UNCHANGED <<jobs, tools, notif_statuses, now, jl, cluster, K8sEnabled, configured, handlers,
                   writeFaults, delivered, deliveries, instances, mainLocals>>

(***************************************************************************)
(* The message handler                                                     *)
(***************************************************************************)
UpdateStates == {"Running", "Completed"}

\* update.Job.InvocationID: the external id of a job (the model names a job
\* and its step alike), none, or one that no job step has
InvocationIDs == Jobs \cup {"", "unknown"}

\* lookupByExternalID: QueryRow(...).Scan fails on a database error and, with
\* sql.ErrNoRows, when no job step has the external id
lookupByExternalID(externalID, dbOk) == [err |-> ~dbOk \/ externalID \notin Jobs]

\* every update is taken for one that says Running
AnyUpdate(state) == TRUE

\* if update.State != "Running" { return }
RunningUpdate(state) == state = "Running"

\* the driver is between two of its queries on the jobs table.  The driver
\* reads that table in its candidate queries alone, so a change made to it
\* during a loop body has the effect of one made just before the next query
BetweenQueries == pc \in {"hour", "day", "periodic", "kill", "sleep"}

\* CreateMessageHandler: the delivery is acknowledged and the analysis looked up
\* by its external id; unless it is interactive and the update says Running,
\* nothing more is done; else EnsureSubdomain and EnsurePlannedEndDate run
HandlerBody(id, state, o) ==
    LET j == IF id \in Jobs THEN id ELSE "none" IN
    IF /\ id # ""
       /\ lookupByExternalID(id, o.lookupOk).err = FALSE
       /\ o.typeOk /\ jobs[j].interactive /\ RunningUpdate(state)
    THEN LET analysis == jobs[j]
             sub == EnsureSubdomain(analysis, j, o)
             ped == EnsurePlannedEndDate(analysis, tools[j], o)
             row1 == IF sub.value # "" THEN [jobs[j] EXCEPT !.subdomain = sub.value]
                                       ELSE jobs[j]
             row2 == IF ped.write /\ ~ped.err
                     THEN [row1 EXCEPT !.planned_end_date = ped.value]
                     ELSE row1
         IN  /\ jobs' = [jobs EXCEPT ![j] = row2]
             /\ last' = [NoStep EXCEPT !.op = "handler", !.job = j,
                                       !.invocation = id, !.state = state,
                                       !.ensureCalled = TRUE,
                                       !.pedArg = analysis.planned_end_date,
                                       !.ensureErr = ped.err,
                                       !.pedWrite = ped.write,
                                       !.dbErr = ~o.limitOk \/ ~o.setOk]
             /\ UNCHANGED <<tools, notif_statuses, now, pc, jl, cluster, K8sEnabled,
                            configured, handlers, writeFaults, delivered, instances, mainLocals>>
    ELSE /\ last' = [NoStep EXCEPT !.op = "handler", !.job = j,
                                   !.invocation = id, !.state = state]
         /\ UNCHANGED <<jobs, tools, notif_statuses, now, pc, jl, cluster, K8sEnabled,
                        configured, handlers, writeFaults, delivered, instances, mainLocals>>

\* the handler run on a status update, whichever it is
HandleMessage ==
    /\ BetweenQueries
    /\ \E id \in InvocationIDs, state \in UpdateStates, o \in HandlerOutcomes :
          HandlerBody(id, state, o)
    /\ UNCHANGED deliveries

\* the handler on its own, started on any jobs table a deployment can hold:
\* planned end dates, start dates and subdomains set or not, batch and
\* interactive jobs,
\* apps with no tool, with tools without a limit and with limited tools
ToolLists == {<<>>, <<0>>, <<3600>>, <<0, 3600>>}

JobRows(j) ==
    [status : {"Running"}, start_date : {StartDate, Null},
     planned_end_date : {Null, StartDate + 3600},
     subdomain : {"", generateSubdomain(j)}, periodic_period : {0},
     interactive : BOOLEAN]

InitHandler ==
    /\ jobs \in {f \in [Jobs -> UNION {JobRows(j) : j \in Jobs}] :
                    \A j \in Jobs : f[j] \in JobRows(j)}
    /\ tools \in [Jobs -> ToolLists]
    /\ notif_statuses = [j \in Jobs |-> <<>>]
    /\ now = StartDate
    /\ pc = "sleep"
    /\ jl = {}
    /\ cluster = Jobs
    /\ K8sEnabled = TRUE
    /\ configured = TRUE
    /\ handlers = NoHandlers
    /\ writeFaults = 0
    /\ delivered = {}
    /\ deliveries = {}
    /\ instances = NoInstances
    /\ mainLocals = NoMainLocals
    /\ last = NoStep

HandlerSpec == InitHandler /\ [][HandleMessage]_vars

(***************************************************************************)
(* The message handler, statement by statement, for runs that overlap      *)
(***************************************************************************)
\* Ack, Unmarshal, lookupByExternalID, isInteractive, update.State: the run
\* goes on with the analysis as read, or returns
HandlerReceive(h) ==
    /\ handlers[h].at = "idle"
    /\ \E j \in Jobs, state \in UpdateStates, o \in HandlerOutcomes :
          /\ o.lookupOk /\ o.typeOk /\ jobs[j].interactive /\ RunningUpdate(state)
          /\ handlers' = [handlers EXCEPT ![h] =
                             [at |-> "subdomain", job |-> j, analysis |-> jobs[j]]]
    /\ UNCHANGED <<jobs, tools, notif_statuses, now, pc, jl, cluster, K8sEnabled,
                   configured, writeFaults, delivered, deliveries, instances, mainLocals, last>>

\* subdomain, err := EnsureSubdomain(ctx, dedb, analysis): an error is logged
HandlerSubdomain(h) ==
    /\ handlers[h].at = "subdomain"
    /\ \E o \in HandlerOutcomes :
          LET j == handlers[h].job
              sub == EnsureSubdomain(handlers[h].analysis, j, o)
          IN  jobs' = IF sub.value # "" THEN [jobs EXCEPT ![j].subdomain = sub.value]
                                        ELSE jobs
    /\ handlers' = [handlers EXCEPT ![h].at = "limit"]
    /\ UNCHANGED <<tools, notif_statuses, now, pc, jl, cluster, K8sEnabled,
                   configured, writeFaults, delivered, deliveries, instances, mainLocals, last>>

\* EnsurePlannedEndDate up to getTimeLimit: the run returns when the analysis
\* as read has a planned end date, when its start date does not parse, or when
\* getTimeLimit fails
HandlerTimeLimit(h) ==
    /\ handlers[h].at = "limit"
    /\ \E o \in HandlerOutcomes :
          LET j == handlers[h].job
              analysis == handlers[h].analysis
              l == getTimeLimit(tools[j], o.limitOk)
          IN  handlers' = [handlers EXCEPT ![h] =
                             IF \/ analysis.planned_end_date # Null
                                \/ ~StartDateParses(analysis.start_date)
                                \/ l.err
                             THEN Idle
                             ELSE [at |-> "write", job |-> j, analysis |-> analysis,
                                   endDate |-> EndDateMillis(analysis.start_date,
                                                             l.seconds)]]
    /\ UNCHANGED <<jobs, tools, notif_statuses, now, pc, jl, cluster, K8sEnabled,
                   configured, writeFaults, delivered, deliveries, instances, mainLocals, last>>

\* setPlannedEndDate: update only jobs set planned_end_date = $1 where id = $2
HandlerSetDate(h) ==
    /\ handlers[h].at = "write"
    /\ \E o \in HandlerOutcomes :
          jobs' = IF o.setOk
                  THEN [jobs EXCEPT ![handlers[h].job].planned_end_date =
                                       FormatPlannedEndDate(handlers[h].endDate)]
                  ELSE jobs
    /\ handlers' = [handlers EXCEPT ![h] = Idle]
    /\ UNCHANGED <<tools, notif_statuses, now, pc, jl, cluster, K8sEnabled,
                   configured, writeFaults, delivered, deliveries, instances, mainLocals, last>>

\* an administrator changes the time limit of the tools of a job's app while
\* a Running event of the job is being handled
ToolLimitChanges ==
    /\ \E j \in Jobs, ls \in ToolLists :
          /\ \E h \in HandlerIds : handlers[h].at # "idle" /\ handlers[h].job = j
          /\ ls # tools[j]
          /\ tools' = [tools EXCEPT ![j] = ls]
    /\ UNCHANGED <<jobs, notif_statuses, now, pc, jl, cluster, K8sEnabled,
                   configured, handlers, writeFaults, delivered, deliveries, instances, mainLocals, last>>

NextRace ==
    \/ \E h \in HandlerIds : HandlerReceive(h)
    \/ \E h \in HandlerIds : HandlerSubdomain(h)
    \/ \E h \in HandlerIds : HandlerTimeLimit(h)
    \/ \E h \in HandlerIds : HandlerSetDate(h)
    \/ ToolLimitChanges

\* two handler runs on the jobs table of Init
RaceSpec == Init /\ [][NextRace]_vars

(***************************************************************************)
(* The environment                                                         *)
(***************************************************************************)
\* time passes while the driver sleeps; the calls of one iteration take no
\* time on the scale of ClockStep
Tick ==
    /\ pc = "sleep"
    /\ now + ClockStep <= MaxNow
    /\ now' = now + ClockStep
    /\ last' = NoStep
    /\ UNCHANGED <<jobs, tools, notif_statuses, pc, jl, cluster, K8sEnabled, configured, handlers,
                   writeFaults, delivered, deliveries, instances, mainLocals>>

\* the deployment of a kill candidate leaves the cluster after the candidate
\* query and before the JobKiller looks for it
DeploymentGone ==
    /\ pc = "killLoop"
    /\ K8sEnabled
    /\ \E j \in jl \cap cluster : cluster' = cluster \ {j}
    /\ last' = NoStep
    /\ UNCHANGED <<jobs, tools, notif_statuses, now, pc, jl, K8sEnabled, configured, handlers,
                   writeFaults, delivered, deliveries, instances, mainLocals>>

\* the system of record moves a job out of Running
JobEnds ==
    /\ BetweenQueries
    /\ \E j \in Jobs :
          /\ jobs[j].status = "Running"
          /\ jobs' = [jobs EXCEPT ![j].status = "Completed"]
    /\ last' = NoStep
    /\ UNCHANGED <<tools, notif_statuses, now, pc, jl, cluster, K8sEnabled, configured, handlers,
                   writeFaults, delivered, deliveries, instances, mainLocals>>

Next ==
    \/ HourWarningQuery
    \/ HourWarningJob
    \/ DayWarningQuery
    \/ DayWarningJob
    \/ PeriodicQuery
    \/ PeriodicJob
    \/ KillQuery
    \/ KillJobStep
    \/ Sleep
    \/ Tick
    \/ DeploymentGone
    \/ JobEnds

Spec == Init /\ [][Next]_vars

(***************************************************************************)
(* Properties                                                              *)
(***************************************************************************)
\* the row NotifStatuses reads for a job, and its per-stage columns
HasRow(t, j) == t[j] # <<>>
StoredRow(t, j) == Head(t[j])

SentFlag(row, stage) ==
    CASE stage = "hour" -> row.hour_warning_sent
      [] stage = "day" -> row.day_warning_sent
      [] stage = "kill" -> row.kill_warning_sent

StoredCount(row, stage) ==
    CASE stage = "hour" -> row.hour_warning_failure_count
      [] stage = "day" -> row.day_warning_failure_count
      [] stage = "kill" -> row.kill_warning_failure_count

\* C1: once the sent flag of the hour (day) class is true in a job's row, a
\* later pass of the hour (day) warning sweep over that job does not call the
\* notification sender
C1_NoSendOnceSent ==
    [][\A j \in Jobs, stage \in WarningStages :
          (/\ HasRow(notif_statuses, j)
           /\ SentFlag(StoredRow(notif_statuses, j), stage)
           /\ last'.op = stage
           /\ last'.job = j) => ~last'.sendInvoked]_vars

\* the hour sweep has read the row of a job whose hour flag is set, and has
\* sent nothing
C1_Witness ==
    /\ last.op = "hour"
    /\ last.reached
    /\ ~last.sendInvoked
    /\ HasRow(notif_statuses, last.job)
    /\ StoredRow(notif_statuses, last.job).hour_warning_sent

\* C2: after a failed send of the hour or day class that leaves the failure
\* count below maxAttempts, the sent flag of that class is still false
C2_SentOnlyBySuccessOrCeiling ==
    (/\ last.op \in WarningStages
     /\ last.sendErr
     /\ HasRow(notif_statuses, last.job)
     /\ StoredCount(StoredRow(notif_statuses, last.job), last.op) < maxAttempts)
    => ~SentFlag(StoredRow(notif_statuses, last.job), last.op)

\* C3: the notification service never accepts an hour or day warning for a
\* job for which it has accepted one of the same class before
C3_AtMostOnce == ~(last.op \in WarningStages /\ last.again)

\* C4: every pass of the kill sweep that reads the row of a kill candidate
\* calls KillJob for it
C4_KillRetried == (last.op = "kill" /\ last.reached) => last.killInvoked

\* C5: when the termination request of a kill candidate fails, the kill
\* notification is still attempted in the same pass
C5_NotifyAfterFailedKill ==
    (last.op = "kill" /\ last.termIssued /\ last.killErr) => last.sendInvoked

\* C6: in k8s mode, when the listing of a kill candidate shows no deployment,
\* the job is reported Completed and no kill notification is sent
C6_AbsentMarkedCompleted ==
    (last.op = "kill" /\ last.listed /\ ~last.found)
    => (last.completed /\ ~last.sendInvoked)

\* C7: a sent flag that is true in a job's row stays true in every later state
C7_SentMonotonic ==
    [][\A j \in Jobs, stage \in OneShot :
          (HasRow(notif_statuses, j) /\ SentFlag(StoredRow(notif_statuses, j), stage))
          => (HasRow(notif_statuses', j) /\ SentFlag(StoredRow(notif_statuses', j), stage))]_vars

\* the kill sweep has run over a job whose hour flag was set before, and the
\* flag is still set
C7_Witness ==
    /\ last.op = "kill"
    /\ last.sentWrite
    /\ HasRow(notif_statuses, last.job)
    /\ StoredRow(notif_statuses, last.job).hour_warning_sent
    /\ StoredRow(notif_statuses, last.job).kill_warning_sent

\* C8: a failure count is written only in a pass in which a notification send
\* of that stage failed
C8_CountOnlyOnFailedSend == last.cntWrite => last.sendErr

\* C9: there is at most one notif_statuses row per job, and a job whose row a
\* sweep has read has exactly one
C9_OneRowPerJob ==
    /\ \A j \in Jobs : Len(notif_statuses[j]) <= 1
    /\ last.reached => Len(notif_statuses[last.job]) = 1

\* the existence check of a job that has a row failed, the insert was tried
\* and was turned down
C9_Witness == last.addErr /\ Len(notif_statuses[last.job]) = 1

\* C10: EnsurePlannedEndDate on a job whose planned end date is set returns no
\* error, does not call setPlannedEndDate and leaves the date as it was
C10_EnsureIdempotent ==
    (last.ensureCalled /\ last.pedArg # Null)
    => (/\ ~last.ensureErr
        /\ ~last.pedWrite
        /\ jobs[last.job].planned_end_date = last.pedArg)

\* the handler has run EnsurePlannedEndDate on a job whose date was set
C10_Witness == last.ensureCalled /\ last.pedArg # Null

\* C11: a planned end date that is stored for a job is not changed by any run
\* of the Running-event handler, overlapping runs included
C11_PlannedEndDateWriteOnce ==
    [][\A j \in Jobs :
          jobs[j].planned_end_date # Null
          => jobs'[j].planned_end_date = jobs[j].planned_end_date]_vars

\* the time limit of a job as the sum, over the tools of its app steps, of
\* the tool's limit when positive and of 72 hours otherwise
RECURSIVE LimitOfTools(_, _)
LimitOfTools(ls, n) ==
    IF n = 0 THEN 0
    ELSE LimitOfTools(ls, n - 1) + (IF ls[n] > 0 THEN ls[n] ELSE 72 * 60 * 60)

NextReminderTime(t, j) ==
    LET last_warning == IF HasRow(t, j) /\ StoredRow(t, j).last_periodic_warning # Null
                        THEN StoredRow(t, j).last_periodic_warning
                        ELSE jobs[j].start_date
        base == IF last_warning > jobs[j].start_date THEN last_warning
                                                      ELSE jobs[j].start_date
        stored == IF HasRow(t, j) THEN StoredRow(t, j).periodic_warning_period
                  ELSE IF jobs[j].periodic_period > 0 THEN jobs[j].periodic_period
                  ELSE 0
    IN  base + (IF stored > 0 THEN stored ELSE 4 * 60 * 60)

\* C13: the periodic sweep calls the sender for a job only at a time that is
\* not earlier than max(lastPeriodicWarning, startDate) + P
C13_NoEarlyReminder ==
    [][\A j \in Jobs :
          (last'.op = "periodic" /\ last'.job = j /\ last'.sendInvoked)
          => now >= NextReminderTime(notif_statuses, j)]_vars

\* a reminder was accepted for a job and its time recorded
C13_Witness ==
    /\ last.op = "periodic"
    /\ last.accepted
    /\ HasRow(notif_statuses, last.job)
    /\ StoredRow(notif_statuses, last.job).last_periodic_warning = now

(***************************************************************************)
(* One periodic sweep over jobs that have had reminders before             *)
(***************************************************************************)
\* the times of the sweep, and of the last reminder of a job before it
PeriodicTimes == {StartDate + k * 3600 : k \in 1..5}
LastWarningTimes == {Null, StartDate, StartDate + 3600}

\* the notif_statuses row of a job as AddNotifRecord made it and
\* UpdateLastPeriodicWarning left it
PeriodicRows(j, t) ==
    {<<>>} \cup
    {<<[NewRow(j, Period(InitJobs[j].periodic_period))
            EXCEPT !.last_periodic_warning = w]>> :
        w \in {x \in LastWarningTimes : x <= t}}

InitPeriodic ==
    /\ jobs = InitJobs
    /\ tools = InitTools
    /\ now \in PeriodicTimes
    /\ notif_statuses \in {ns \in [Jobs -> UNION {PeriodicRows(j, now) : j \in Jobs}] :
                               \A j \in Jobs : ns[j] \in PeriodicRows(j, now)}
    /\ pc = "periodic"
    /\ jl = {}
    /\ cluster = Jobs
    /\ K8sEnabled = TRUE
    /\ configured = TRUE
    /\ handlers = NoHandlers
    /\ writeFaults = 0
    /\ delivered = {}
    /\ deliveries = {}
    /\ instances = NoInstances
    /\ mainLocals = NoMainLocals
    /\ last = NoStep

NextPeriodic == PeriodicQuery \/ PeriodicJob

PeriodicSpec == InitPeriodic /\ [][NextPeriodic]_vars

\* T + P of the stored row of a job
ReminderLag(j) ==
    StoredRow(notif_statuses, j).last_periodic_warning
    + StoredRow(notif_statuses, j).periodic_warning_period

\* the job is Running and its row holds the time T of its last reminder, which
\* is not earlier than the start date
HadReminder(j) ==
    /\ jobs[j].status = "Running"
    /\ HasRow(notif_statuses, j)
    /\ StoredRow(notif_statuses, j).last_periodic_warning # Null
    /\ StoredRow(notif_statuses, j).last_periodic_warning >= jobs[j].start_date

\* the candidate query of the periodic sweep has answered with candidates
PeriodicSelected == pc = "periodic" /\ pc' = "periodicLoop"

\* the loop body has run for job j: the row was read, the sender and the
\* timestamp write returned no error
ReminderDone(j) ==
    /\ pc = "periodicLoop"
    /\ last'.op = "periodic" /\ last'.job = j
    /\ last'.reached /\ ~last'.sendErr /\ ~last'.sentErr

\* what the loop body does for a job of the sweep: one call of the sender,
\* the time of the sweep stored, and the job is not processed again
OneReminder(j) ==
    /\ last'.sendInvoked
    /\ StoredRow(notif_statuses', j).last_periodic_warning = now
    /\ j \notin jl'

SweepOf(p) ==
    CASE p \in {"hour", "hourLoop"} -> 1
      [] p \in {"day", "dayLoop"} -> 2
      [] p \in {"periodic", "periodicLoop"} -> 3
      [] p \in {"kill", "killLoop"} -> 4
      [] p = "sleep" -> 5

\* the candidate query that begins a sweep
SweepStart(p) == p \in {"hour", "day", "periodic", "kill"}

\* C15: in every driver iteration the sweeps run in the order hour-warning,
\* day-warning, periodic, kill: a step of the driver stays in its sweep without
\* going back to the sweep's beginning, or goes on to the beginning of the next
\* sweep (after the kill sweep: the sleep), or begins the next iteration with
\* the hour-warning sweep, from the kill sweep's query or from the sleep only
C15_SweepOrder ==
    [][pc' # pc
       => \/ SweepOf(pc') = SweepOf(pc) /\ ~SweepStart(pc')
          \/ SweepOf(pc') = SweepOf(pc) + 1 /\ (SweepStart(pc') \/ pc' = "sleep")
          \/ pc' = "hour" /\ pc \in {"kill", "sleep"}]_vars

\* an iteration in which the hour-warning sweep delivered a warning has come
\* to the end of its kill sweep
C15_Witness ==
    /\ pc = "sleep"
    /\ last.op = "kill"
    /\ \E j \in Jobs : <<j, "hour">> \in delivered

(***************************************************************************)
(* The driver under the scheduling of its goroutine                        *)
(***************************************************************************)
\* the statements of the driver goroutine: every call of the loop body
\* returns, with or without an error, and the goroutine goes on to its next
\* statement
DriverStep ==
    \/ HourWarningQuery
    \/ HourWarningJob
    \/ DayWarningQuery
    \/ DayWarningJob
    \/ PeriodicQuery
    \/ PeriodicJob
    \/ KillQuery
    \/ KillJobStep
    \/ Sleep

LiveSpec == Init /\ [][Next]_vars /\ WF_vars(DriverStep)

\* C16: under any combination of query, send, termination and status-store
\* errors the driver always eventually starts another iteration: the
\* hour-warning sweep begins infinitely often
C16_DriverNeverStops == []<>(pc = "hour")

\* a new iteration has begun after a status-store write failed
C16_Witness ==
    /\ pc = "hour"
    /\ now > StartDate
    /\ writeFaults > 0

(***************************************************************************)
(* enforceLimit (main.go of the polling version)                           *)
(***************************************************************************)
\* a time.Time is a number of microseconds from a reference instant
MicrosPerMilli == 1000
MicrosPerSecond == 1000000
warnWithinMinutes == 6

\* time.ParseDuration(fmt.Sprintf("%ds", j.TimeLimit))
ParseDuration(seconds) == seconds * MicrosPerSecond

\* time.Unix(0, j.StartOn*1000000): milliseconds to a time
TimeOfMillis(ms) == ms * MicrosPerMilli

\* a comparison that takes the limit date itself as past the limit
NotBefore(t, u) == t >= u

\* t.After(u)
After(t, u) == t > u

\* an error that is dropped on its way to the caller
WrapDropped(err) == FALSE

\* errors.Wrap(err, message): nil when err is nil
Wrap(err) == err

\* enforceLimit(j, e) at the time n: whether the enforcer was invoked, whether
\* the time limit warning was sent, and whether an error was returned; cbErr
\* is the result of the enforcer, urisSet whether the notification and user
\* services are configured, notifErr the result of sendNotif
enforceLimit(TimeLimit, StartOn, n, cbErr, urisSet, notifErr) ==
    IF TimeLimit = 0 THEN [err |-> FALSE, invoked |-> FALSE, warned |-> FALSE]
    ELSE
    LET limit == ParseDuration(TimeLimit)
        sentOn == TimeOfMillis(StartOn)
        limitDate == sentOn + limit
        enforce == After(n, limitDate)
    IN
    IF enforce /\ cbErr
    THEN [err |-> Wrap(cbErr), invoked |-> TRUE, warned |-> FALSE]
    ELSE
    LET timeRemaining == n - limitDate IN
    IF timeRemaining <= warnWithinMinutes * 60 * MicrosPerSecond /\ urisSet
    THEN [err |-> Wrap(notifErr), invoked |-> enforce, warned |-> TRUE]
    ELSE [err |-> FALSE, invoked |-> enforce, warned |-> FALSE]

\* the jobs and the times enforceLimit is applied to: time limits in seconds,
\* start times in milliseconds, the clock in microseconds
TimeLimits == {-1, 0, 1, 10, 600}
StartOns == {0, 1000}
ClockTimes == {0, 999999, 1000000, 1000001, 2000000, 10000000, 11000000, 11000001,
               361000000, 361000001}

InitEnforce ==
    /\ jobs = InitJobs
    /\ tools = InitTools
    /\ notif_statuses = [j \in Jobs |-> <<>>]
    /\ now = StartDate
    /\ pc = "enforce"
    /\ jl = {}
    /\ cluster = Jobs
    /\ K8sEnabled = TRUE
    /\ configured = TRUE
    /\ handlers = NoHandlers
    /\ writeFaults = 0
    /\ delivered = {}
    /\ deliveries = {}
    /\ instances = NoInstances
    /\ mainLocals = NoMainLocals
    /\ last = NoStep

\* one call of enforceLimit from action's loop over the running jobs
EnforceLimitCall ==
    /\ pc = "enforce"
    /\ \E TimeLimit \in TimeLimits, StartOn \in StartOns, n \in ClockTimes,
          cbErr \in BOOLEAN, urisSet \in BOOLEAN, notifErr \in BOOLEAN :
          LET r == enforceLimit(TimeLimit, StartOn, n, cbErr, urisSet, notifErr) IN
          last' = [op |-> "enforceLimit", TimeLimit |-> TimeLimit, StartOn |-> StartOn,
                   n |-> n, cbErr |-> cbErr, urisSet |-> urisSet, notifErr |-> notifErr,
                   invoked |-> r.invoked, warned |-> r.warned, err |-> r.err]
    /\ UNCHANGED <<jobs, tools, notif_statuses, now, pc, jl, cluster, K8sEnabled, configured,
                   handlers, writeFaults, delivered, deliveries, instances, mainLocals>>

EnforceSpec == InitEnforce /\ [][EnforceLimitCall]_vars

\* C17: enforceLimit invokes the enforcer exactly when TimeLimit is not 0 and
\* the current time is after StartOn plus TimeLimit seconds; with TimeLimit 0
\* it returns nil and does not invoke it
C17_EnforcedExactlyPastLimit ==
    last.op = "enforceLimit"
    => /\ last.invoked <=> (/\ last.TimeLimit # 0
                            /\ last.n > last.StartOn * 1000 + last.TimeLimit * 1000 * 1000)
       /\ last.TimeLimit = 0 => ~last.err

\* the enforcer was invoked for a job one second past its start with a limit
\* of one second, one microsecond after the limit date
C17_Witness ==
    /\ last.op = "enforceLimit"
    /\ last.TimeLimit = 1 /\ last.StartOn = 0 /\ last.n = 1000001
    /\ last.invoked

\* C18: enforceLimit returns a non-nil error whenever the enforcer it invoked
\* returned an error
C18_EnforcerErrorReturned ==
    (last.op = "enforceLimit" /\ last.invoked /\ last.cbErr) => last.err

\* the enforcer was invoked, failed, and enforceLimit returned an error
C18_Witness ==
    /\ last.op = "enforceLimit"
    /\ last.invoked /\ last.cbErr /\ last.err

(***************************************************************************)
(* ParseID (users.go)                                                      *)
(***************************************************************************)
\* a username is a sequence of characters
MaxNameLen == 5
Chars == {"a", "b", "@"}
Usernames == UNION {[1..n -> Chars] : n \in 0..MaxNameLen}

\* strings.Contains(s, sep) for a separator of one character
Contains(s, sep) == \E i \in DOMAIN s : s[i] = sep

\* strings.Index(s, sep), for an s that contains sep
Index(s, sep) == CHOOSE i \in DOMAIN s : s[i] = sep /\ \A k \in 1..(i - 1) : s[k] # sep

RECURSIVE Split(_, _)
\* strings.Split(s, sep): the substrings between the separators
Split(s, sep) ==
    IF ~Contains(s, sep) THEN <<s>>
    ELSE <<SubSeq(s, 1, Index(s, sep) - 1)>>
         \o Split(SubSeq(s, Index(s, sep) + 1, Len(s)), sep)

RECURSIVE Join(_, _)
\* strings.Join(elems, sep)
Join(elems, sep) ==
    IF elems = <<>> THEN <<>>
    ELSE IF Len(elems) = 1 THEN elems[1]
    ELSE elems[1] \o <<sep>> \o Join(Tail(elems), sep)

\* the user's ID as killCondorJob takes it: strings.Split(username, "@")[0]
ParseIDFirst(username) == Split(username, "@")[1]

ParseID(username) ==
    LET hasAt == Contains(username, "@") IN
    IF ~hasAt THEN username
    ELSE LET parts == Split(username, "@") IN
         Join(SubSeq(parts, 1, Len(parts) - 1), "@")

InitParse ==
    /\ jobs = InitJobs
    /\ tools = InitTools
    /\ notif_statuses = [j \in Jobs |-> <<>>]
    /\ now = StartDate
    /\ pc = "parse"
    /\ jl = {}
    /\ cluster = Jobs
    /\ K8sEnabled = TRUE
    /\ configured = TRUE
    /\ handlers = NoHandlers
    /\ writeFaults = 0
    /\ delivered = {}
    /\ deliveries = {}
    /\ instances = NoInstances
    /\ mainLocals = NoMainLocals
    /\ last = NoStep

\* users.New(users.ParseID(j.Username))
ParseIDCall ==
    /\ pc = "parse"
    /\ \E username \in Usernames :
          last' = [op |-> "ParseID", username |-> username, id |-> ParseID(username)]
    /\ UNCHANGED <<jobs, tools, notif_statuses, now, pc, jl, cluster, K8sEnabled, configured,
                   handlers, writeFaults, delivered, deliveries, instances, mainLocals>>

ParseSpec == InitParse /\ [][ParseIDCall]_vars

\* the positions of '@' in a username
AtPositions(username) == {i \in DOMAIN username : username[i] = "@"}

\* C19: ParseID returns the username unchanged when it contains no '@', and
\* otherwise everything to the left of the last '@'
C19_LeftOfLastAt ==
    last.op = "ParseID"
    => IF AtPositions(last.username) = {}
       THEN last.id = last.username
       ELSE \E i \in AtPositions(last.username) :
               /\ \A k \in AtPositions(last.username) : k <= i
               /\ last.id = [k \in 1..(i - 1) |-> last.username[k]]

\* a username with two '@' keeps the first of them in its ID
C19_Witness ==
    /\ last.op = "ParseID"
    /\ last.username = <<"a", "@", "b", "@", "a">>
    /\ last.id = <<"a", "@", "b">>

\* C20: after a failed kill-notification send that leaves
\* killWarningFailureCount below maxAttempts, killWarningSent is still false
C20_KillSentOnlyBySuccessOrCeiling ==
    (/\ last.op = "kill"
     /\ last.sendInvoked /\ last.sendErr
     /\ HasRow(notif_statuses, last.job)
     /\ StoredRow(notif_statuses, last.job).kill_warning_failure_count < maxAttempts)
    => ~StoredRow(notif_statuses, last.job).kill_warning_sent

(***************************************************************************)
(* AddNotifRecord applied to jobs of any periodic period                   *)
(***************************************************************************)
\* job.PeriodicPeriod, in seconds: unset, and reminders at several cadences
PeriodicPeriods == {0, 1800, 3600, 7200, 86400}

InitRecord ==
    /\ jobs = InitJobs
    /\ tools = InitTools
    /\ notif_statuses = [j \in Jobs |-> <<>>]
    /\ now = StartDate
    /\ pc = "record"
    /\ jl = {}
    /\ cluster = Jobs
    /\ K8sEnabled = TRUE
    /\ configured = TRUE
    /\ handlers = NoHandlers
    /\ writeFaults = 0
    /\ delivered = {}
    /\ deliveries = {}
    /\ instances = NoInstances
    /\ mainLocals = NoMainLocals
    /\ last = NoStep

\* vicedb.AddNotifRecord(ctx, &j)
AddNotifRecordCall ==
    /\ pc = "record"
    /\ \E j \in Jobs, periodicPeriod \in PeriodicPeriods, dbOk \in BOOLEAN :
          LET r == AddNotifRecord(notif_statuses, j, periodicPeriod, dbOk) IN
          /\ notif_statuses' = r.table
          /\ last' = [op |-> "AddNotifRecord", job |-> j,
                      periodicPeriod |-> periodicPeriod, err |-> r.err]
    /\ UNCHANGED <<jobs, tools, now, pc, jl, cluster, K8sEnabled, configured,
                   handlers, writeFaults, delivered, deliveries, instances, mainLocals>>

RecordSpec == InitRecord /\ [][AddNotifRecordCall]_vars

\* C21: a row that AddNotifRecord has just created has the hour, day and kill
\* sent flags false, the three failure counts 0, and a periodic warning period
\* of the job's periodic period when that is > 0 and of 4 hours otherwise
C21_NewRowDefaults ==
    (last.op = "AddNotifRecord" /\ ~last.err)
    => LET row == notif_statuses[last.job][Len(notif_statuses[last.job])] IN
       /\ ~row.hour_warning_sent /\ ~row.day_warning_sent /\ ~row.kill_warning_sent
       /\ row.hour_warning_failure_count = 0
       /\ row.day_warning_failure_count = 0
       /\ row.kill_warning_failure_count = 0
       /\ row.periodic_warning_period =
             (IF last.periodicPeriod > 0 THEN last.periodicPeriod ELSE 4 * 60 * 60)

\* a row was created for a job without a periodic period of its own
C21_Witness ==
    /\ last.op = "AddNotifRecord" /\ ~last.err
    /\ last.periodicPeriod = 0
    /\ Len(notif_statuses[last.job]) = 1
    /\ notif_statuses[last.job][1].periodic_warning_period = 14400

\* no tool of the job's app has a positive time limit: each limit is 0, or the
\* app has no tool to take a limit from
NoPositiveLimit(j) == \A i \in DOMAIN tools[j] : tools[j][i] <= 0

\* C22: for a job with no positive tool time limit, EnsurePlannedEndDate
\* returns no error and sets the planned end date with 72 hours for each tool
\* (the job has a start date, no planned end date, and the database answers)
C22_DefaultLimitNoError ==
    (/\ last.ensureCalled /\ last.pedArg = Null /\ ~last.dbErr
     /\ StartDateParses(jobs[last.job].start_date)
     /\ NoPositiveLimit(last.job))
    => /\ ~last.ensureErr
       /\ jobs[last.job].planned_end_date =
             jobs[last.job].start_date + Len(tools[last.job]) * 72 * 60 * 60

\* C23: when the start date does not parse, the time-limit query fails or the
\* write fails, EnsurePlannedEndDate returns an error, and whenever it returns
\* an error the stored planned end date of the job is what it was
C23_FailureLeavesDate ==
    [][\A j \in Jobs :
          (last'.ensureCalled /\ last'.job = j)
          => /\ (/\ last'.pedArg = Null
                 /\ \/ ~StartDateParses(jobs[j].start_date)
                    \/ last'.dbErr)
                => last'.ensureErr
             /\ last'.ensureErr
                => jobs'[j].planned_end_date = jobs[j].planned_end_date]_vars

\* setPlannedEndDate was called and failed: the error was returned and the job
\* has no planned end date
C23_Witness ==
    /\ last.ensureCalled /\ last.pedWrite /\ last.ensureErr
    /\ jobs[last.job].planned_end_date = Null

\* C24: a status-update event changes the store only when its state is
\* "Running" and it names an interactive job; an event with another state,
\* for a job that is not interactive, with an empty invocation id or with an
\* id that no job has leaves the store as it was
C24_OnlyRunningInteractive ==
    [][last'.op = "handler"
       => /\ <<tools, notif_statuses>>' = <<tools, notif_statuses>>
          /\ jobs' # jobs
             => /\ last'.state = "Running"
                /\ last'.invocation \in Jobs
                /\ jobs[last'.invocation].interactive]_vars

\* events that were ignored: a Completed one of an interactive job, and one
\* of an id that no job has
C24_Witness ==
    /\ last.op = "handler"
    /\ ~last.ensureCalled
    /\ \/ /\ last.invocation \in Jobs
          /\ last.state = "Completed"
          /\ jobs[last.invocation].interactive
          /\ jobs[last.invocation].planned_end_date = Null
       \/ last.invocation = "unknown" /\ last.state = "Running"

(***************************************************************************)
(* The handler fed from the timelord queue                                 *)
(***************************************************************************)
\* the status updates the DE has published for the jobs: each job reports each
\* of its states once
Updates == [id : Jobs, state : UpdateStates]

\* a run of the handler in which the database answers every statement
NoFailure ==
    {o \in HandlerOutcomes :
        o.lookupOk /\ o.typeOk /\ o.userOk /\ o.subOk /\ o.limitOk /\ o.setOk}

InitRetry ==
    /\ jobs = InitJobs
    /\ tools = InitTools
    /\ notif_statuses = [j \in Jobs |-> <<>>]
    /\ now = StartDate
    /\ pc = "sleep"
    /\ jl = {}
    /\ cluster = Jobs
    /\ K8sEnabled = TRUE
    /\ configured = TRUE
    /\ handlers = NoHandlers
    /\ writeFaults = 0
    /\ delivered = {}
    /\ deliveries \in SUBSET Updates
    /\ instances = NoInstances
    /\ mainLocals = NoMainLocals
    /\ last = NoStep

\* the consumer hands a delivery of the queue to the handler, whose first
\* statement is delivery.Ack(false): the update leaves the queue whatever the
\* handler does with it (its outcome is drawn from the set given)
HandleDeliveryWith(outcomes) ==
    \E d \in deliveries, o \in outcomes :
       /\ deliveries' = deliveries \ {d}
       /\ HandlerBody(d.id, d.state, o)

HandleDelivery == HandleDeliveryWith(HandlerOutcomes)

\* a delivery in the queue is handled in the end, and the database does not
\* fail every time the handler runs
RetrySpec ==
    /\ InitRetry
    /\ [][HandleDelivery]_vars
    /\ WF_vars(HandleDelivery)
    /\ SF_vars(HandleDeliveryWith(NoFailure))

\* C25: for an interactive job whose Running update is in the queue, the
\* planned end date is set in the end, also when EnsurePlannedEndDate fails on
\* the way: the computation is made again until it succeeds
C25_EndDateEventuallySet ==
    \A j \in Jobs :
       ([id |-> j, state |-> "Running"] \in deliveries /\ jobs[j].interactive)
       ~> (jobs[j].planned_end_date # Null)

\* the rows of a job after a loop body that has changed no column: the rows as
\* they were, or the one row that ensureNotifRecord has created
RowsKept(j) ==
    IF HasRow(notif_statuses, j) THEN notif_statuses[j]
    ELSE <<NewRow(j, Period(jobs[j].periodic_period))>>

InLoop == pc \in {"hourLoop", "dayLoop", "periodicLoop", "killLoop"}

\* C27: within a sweep, an error in the body of one candidate (record
\* creation, status read, send, termination, status write) does not keep any
\* later candidate from being processed: the body takes one candidate from
\* those left, and the sweep ends only when none is left
C27_FailureDoesNotAbortSweep ==
    [][(InLoop /\ last'.op \in {"hour", "day", "periodic", "kill"})
       => /\ last'.job \in jl
          /\ jl' = jl \ {last'.job}
          /\ jl' # {} => pc' = pc
          /\ jl' = {} => SweepOf(pc') = SweepOf(pc) + 1]_vars

\* the body of a candidate has failed and the sweep goes on with the
\* candidates left
C27_Witness ==
    /\ InLoop
    /\ BodyFailed(last)
    /\ jl # {}
    /\ last.job \notin jl

\* C28: when the candidate query of a sweep fails, the sweep processes no job
\* and the sweeps after it in the iteration still run: the driver goes on to
\* the candidate query of the next sweep (after a failed kill query, the last
\* sweep, to the next iteration)
C28_FailedQueryEndsSweepOnly ==
    [][last'.queryErr
       => /\ SweepStart(pc)
          /\ jl' = {}
          /\ pc # "kill" => SweepStart(pc') /\ SweepOf(pc') = SweepOf(pc) + 1
          /\ pc = "kill" => pc' = "hour"]_vars

\* the candidate query of the hour-warning sweep has failed and the driver is
\* at the candidate query of the day-warning sweep
C28_Witness ==
    /\ last.queryErr
    /\ pc = "day"
    /\ jl = {}

\* C29: the driver reaches the hour-warning sweep of an iteration only from
\* the sleep that ends the iteration before it, on every path, the path where
\* the candidate query of the kill sweep fails included
C29_SleepBeforeNextIteration ==
    [][(pc' = "hour" /\ pc # "hour") => pc = "sleep"]_vars

\* the user directory did not answer the lookup of this loop body with 200
LookupFailed(log) == log.lookup \in {"non200", "neterr"}

\* C30: when the user directory fails the lookup of a notification of the
\* hour, day or kill stage (a transport error or a status other than 200), the
\* notification is not sent and the stage writes its failure count
C30_LookupFailureIsSendFailure ==
    (last.op \in {"hour", "day", "kill"} /\ LookupFailed(last))
    => (~last.accepted /\ last.sendErr /\ last.cntWrite)
\* the notification service was asked and answered the POST of this loop body
\* with a status that is not 2xx
AnsweredNot2xx(log) ==
    /\ log.sendInvoked
    /\ log.lookup # "none"
    /\ ~log.sendErr
    /\ ~log.accepted

\* C31: an attempt of the hour, day or kill stage that the notification
\* service answers with a 5xx status is a delivery failure: the stage writes
\* its failure count and does not set its sent flag on account of the attempt
C31_ServerErrorIsSendFailure ==
    (last.op \in {"hour", "day", "kill"} /\ AnsweredNot2xx(last))
    => (last.cntWrite /\ ~last.sentWrite)

(***************************************************************************)
(* Two driver instances on one store: sendWarning statement by statement   *)
(***************************************************************************)
WarningKeys == {warningSentKey, oneDayWarningKey}

\* sendWarning(ctx, db, vicedb, *warningInterval, *warningSentKey) and
\* sendWarning(ctx, db, vicedb, 1440, oneDayWarningKey)
MinutesOf(warningKey) == IF warningKey = warningSentKey THEN warningInterval ELSE dayInterval

\* JobKillWarnings, then for a candidate j: ensureNotifRecord; on an error the
\* loop goes on with its next job
InstanceEnsure(d) ==
    /\ instances[d].at = "idle"
    /\ \E key \in WarningKeys, o \in WarningOutcomes :
          \E j \in JobKillWarnings(jobs, now, MinutesOf(key)) :
             LET e == ensureNotifRecord(notif_statuses, j, jobs[j].periodic_period, o) IN
             /\ notif_statuses' = e.table
             /\ instances' = [instances EXCEPT ![d] =
                                 IF e.err THEN @
                                 ELSE [@ EXCEPT !.at = "read", !.job = j, !.key = key]]
    /\ UNCHANGED <<jobs, tools, now, pc, jl, cluster, K8sEnabled, configured, handlers,
                   writeFaults, delivered, deliveries, mainLocals, last>>

\* notifStatuses, err = vicedb.NotifStatuses(ctx, &j); wasSent and failureCount
\* are copied from the row as it is now
InstanceRead(d) ==
    /\ instances[d].at = "read"
    /\ \E o \in WarningOutcomes :
          LET r == NotifStatuses(notif_statuses, instances[d].job, o.readOk) IN
          instances' = [instances EXCEPT ![d] =
                           IF r.err THEN IdleInstance(@.sent)
                           ELSE [@ EXCEPT !.at = "send",
                                          !.wasSent = WasSentOf(r.row, instances[d].key),
                                          !.failureCount = FailureCountOf(r.row, instances[d].key)]]
    /\ UNCHANGED <<jobs, tools, notif_statuses, now, pc, jl, cluster, K8sEnabled, configured,
                   handlers, writeFaults, delivered, deliveries, mainLocals, last>>

\* if !wasSent { if err = SendWarningNotification(ctx, &j); err != nil {
\* failureCount = failureCount + 1 ...
InstanceSend(d) ==
    /\ instances[d].at = "send"
    /\ \E o \in WarningOutcomes :
          LET n == SendWarningNotification(configured, o) IN
          instances' = [instances EXCEPT ![d] =
                           IF ~NotSent(@.wasSent) THEN IdleInstance(@.sent)
                           ELSE [@ EXCEPT !.at = IF n.err THEN "count" ELSE "mark",
                                          !.failureCount = IF n.err THEN @ + 1 ELSE @,
                                          !.sent = IF n.accepted
                                                   THEN @ \cup {<<instances[d].job,
                                                                   instances[d].key>>}
                                                   ELSE @]]
    /\ UNCHANGED <<jobs, tools, notif_statuses, now, pc, jl, cluster, K8sEnabled, configured,
                   handlers, writeFaults, delivered, deliveries, mainLocals, last>>

\* if err = updateFailureCount(ctx, &j, failureCount); err != nil { log.Error(err) }
\* and then: if err == nil || failureCount >= maxAttempts
InstanceCount(d) ==
    /\ instances[d].at = "count"
    /\ \E ok \in BOOLEAN :
          /\ ~ok => writeFaults < MaxWriteFaults
          /\ writeFaults' = IF ok THEN writeFaults ELSE writeFaults + 1
          /\ notif_statuses' = IF ok THEN updateFailureCount(notif_statuses, instances[d].job,
                                                             instances[d].key,
                                                             instances[d].failureCount)
                                     ELSE notif_statuses
          /\ instances' = [instances EXCEPT ![d] =
                              IF MarkSent(~ok, @.failureCount) THEN [@ EXCEPT !.at = "mark"]
                                                               ELSE IdleInstance(@.sent)]
    /\ UNCHANGED <<jobs, tools, now, pc, jl, cluster, K8sEnabled, configured, handlers,
                   delivered, deliveries, mainLocals, last>>

\* if err = updateWarningSent(ctx, &j, true); err != nil { log.Error(err); continue }
InstanceMark(d) ==
    /\ instances[d].at = "mark"
    /\ \E ok \in BOOLEAN :
          /\ ~ok => writeFaults < MaxWriteFaults
          /\ writeFaults' = IF ok THEN writeFaults ELSE writeFaults + 1
          /\ notif_statuses' = IF ok THEN updateWarningSent(notif_statuses, instances[d].job,
                                                            instances[d].key, TRUE)
                                     ELSE notif_statuses
    /\ instances' = [instances EXCEPT ![d] = IdleInstance(@.sent)]
    /\ UNCHANGED <<jobs, tools, now, pc, jl, cluster, K8sEnabled, configured, handlers,
                   delivered, deliveries, mainLocals, last>>

NextInstances ==
    \/ \E d \in InstanceIds : InstanceEnsure(d)
    \/ \E d \in InstanceIds : InstanceRead(d)
    \/ \E d \in InstanceIds : InstanceSend(d)
    \/ \E d \in InstanceIds : InstanceCount(d)
    \/ \E d \in InstanceIds : InstanceMark(d)

\* two driver instances on the store of Init
SharedStoreSpec == Init /\ [][NextInstances]_vars

\* C32: the read of a stage's sent flag and the write of it are separate
\* statements: an instance sends a warning on the strength of the flag as it
\* read it, whatever another instance has done since, so that both instances
\* can send the same hour (or day) warning for the same job
C32_SendsOnFlagAsRead ==
    [][\A d \in InstanceIds :
          instances'[d].sent # instances[d].sent
          => /\ instances[d].at = "send"
             /\ ~instances[d].wasSent]_vars

\* both instances have sent the same warning for the same job although no
\* write to the store has failed
C32_Witness ==
    \E j \in Jobs, key \in WarningKeys :
       /\ \A d \in InstanceIds : <<j, key>> \in instances[d].sent
       /\ writeFaults = 0
       /\ HasRow(notif_statuses, j)
       /\ WasSentOf(StoredRow(notif_statuses, j), key)

(***************************************************************************)
(* main() and its driver goroutine: the kill loop statement by statement   *)
(***************************************************************************)
\* the driver is at the kill sweep, past the planned end date of j1; main has
\* started the goroutine and not yet reached net.Listen
InitClosure ==
    /\ jobs = InitJobs
    /\ tools = InitTools
    /\ notif_statuses = [j \in Jobs |-> <<>>]
    /\ now = InitJobs["j1"].planned_end_date
    /\ pc = "kill"
    /\ jl = {}
    /\ cluster = Jobs
    /\ K8sEnabled \in BOOLEAN
    /\ configured = TRUE
    /\ handlers = NoHandlers
    /\ writeFaults = 0
    /\ delivered = {}
    /\ deliveries = {}
    /\ instances = NoInstances
    /\ mainLocals = NoMainLocals
    /\ last = NoStep

\* for _, j := range jl: ensureNotifRecord, NotifStatuses and
\* "if !notifStatuses.KillWarningSent"
KillRead ==
    /\ pc = "kill"
    /\ \E j \in JobsToKill(jobs, now), o \in Outcomes :
          LET e == ensureNotifRecord(notif_statuses, j, jobs[j].periodic_period, o)
              r == NotifStatuses(e.table, j, o.readOk)
              log0 == [NoStep EXCEPT !.op = "kill", !.job = j]
          IN  /\ notif_statuses' = e.table
              /\ IF e.err \/ r.err \/ ~KillPending(r.row)
                 THEN /\ pc' = "kill"
                      /\ last' = [log0 EXCEPT !.addErr = e.err, !.reached = ~e.err /\ ~r.err]
                      /\ mainLocals' = [mainLocals EXCEPT !.err = e.err \/ r.err]
                 ELSE /\ pc' = "killCall"
                      /\ last' = [log0 EXCEPT !.reached = TRUE]
                      /\ mainLocals' = [mainLocals EXCEPT
                                           !.err = FALSE,
                                           !.failureCount = r.row.kill_warning_failure_count]
    /\ UNCHANGED <<jobs, tools, now, jl, cluster, K8sEnabled, configured, handlers,
                   writeFaults, delivered, deliveries, instances>>

\* err = jobKiller.KillJob(ctx, db, &j) and, when that is nil,
\* err = SendKillNotification(ctx, &j, *killNotifKey)
KillCall ==
    /\ pc = "killCall"
    /\ \E o \in Outcomes :
          LET k == KillJob(K8sEnabled, last.job \in cluster, o)
              n == IF k.err THEN [err |-> TRUE, lookup |-> "none", posted |-> FALSE,
                                  accepted |-> FALSE]
                            ELSE SendKillNotification(configured, o)
          IN  /\ last' = [last EXCEPT !.killInvoked = TRUE, !.killErr = k.err,
                                      !.listed = k.listed, !.found = k.found,
                                      !.termIssued = k.termIssued,
                                      !.sendInvoked = ~k.err, !.sendErr = ~k.err /\ n.err,
                                      !.lookup = n.lookup, !.accepted = n.accepted]
              /\ mainLocals' = [mainLocals EXCEPT !.err = n.err]
    /\ pc' = "killCheck"
    /\ UNCHANGED <<jobs, tools, notif_statuses, now, jl, cluster, K8sEnabled, configured,
                   handlers, writeFaults, delivered, deliveries, instances>>

\* if err != nil { notifStatuses.KillWarningFailureCount = ... + 1;
\* if err = vicedb.SetKillWarningFailureCount(...); err != nil { continue } }
KillCheck ==
    /\ pc = "killCheck"
    /\ IF mainLocals.err
       THEN \E ok \in BOOLEAN :
               /\ ~ok => writeFaults < MaxWriteFaults
               /\ writeFaults' = IF ok THEN writeFaults ELSE writeFaults + 1
               /\ notif_statuses' =
                     IF ok THEN SetKillWarningFailureCount(notif_statuses, last.job,
                                                           mainLocals.failureCount + 1)
                           ELSE notif_statuses
               /\ mainLocals' = [mainLocals EXCEPT !.err = ~ok, !.failureCount = @ + 1]
               /\ last' = [last EXCEPT !.cntWrite = TRUE, !.cntErr = ~ok]
               /\ pc' = IF ok THEN "killMark" ELSE "kill"
       ELSE /\ pc' = "killMark"
            /\ UNCHANGED <<notif_statuses, writeFaults, mainLocals, last>>
    /\ UNCHANGED <<jobs, tools, now, jl, cluster, K8sEnabled, configured, handlers,
                   delivered, deliveries, instances>>

\* if err == nil || notifStatuses.KillWarningFailureCount >= maxAttempts {
\* if err = vicedb.SetKillWarningSent(ctx, &j, true); err != nil { continue } }
KillMark ==
    /\ pc = "killMark"
    /\ IF MarkSent(mainLocals.err, mainLocals.failureCount)
       THEN \E ok \in BOOLEAN :
               /\ ~ok => writeFaults < MaxWriteFaults
               /\ writeFaults' = IF ok THEN writeFaults ELSE writeFaults + 1
               /\ notif_statuses' = IF ok THEN SetKillWarningSent(notif_statuses, last.job, TRUE)
                                          ELSE notif_statuses
               /\ mainLocals' = [mainLocals EXCEPT !.err = ~ok]
               /\ last' = [last EXCEPT !.sentWrite = TRUE, !.sentErr = ~ok]
       ELSE UNCHANGED <<notif_statuses, writeFaults, mainLocals, last>>
    /\ pc' = "kill"
    /\ UNCHANGED <<jobs, tools, now, jl, cluster, K8sEnabled, configured, handlers,
                   delivered, deliveries, instances>>

\* sock, err := net.Listen("tcp", listenAddr) in main(), after "go func() {...}()":
\* sock is new, err is the err of the var block; an error ends the process
MainListen ==
    /\ ~mainLocals.listening
    /\ mainLocals' = [mainLocals EXCEPT !.err = FALSE, !.listening = TRUE]
    /\ UNCHANGED <<jobs, tools, notif_statuses, now, pc, jl, cluster, K8sEnabled, configured,
                   handlers, writeFaults, delivered, deliveries, instances, last>>

NextClosure ==
    \/ KillRead
    \/ KillCall
    \/ KillCheck
    \/ KillMark
    \/ MainListen

ClosureSpec == InitClosure /\ [][NextClosure]_vars

\* C33: what the kill loop decides depends only on the results of its own
\* calls: when KillJob or SendKillNotification has failed for a job, the loop
\* goes on to write the failure count of the job
C33_KillDecisionsFromOwnCalls ==
    [][(pc = "killCheck" /\ pc' # "killCheck" /\ (last.killErr \/ last.sendErr))
       => last'.cntWrite]_vars

\* the columns of notif_statuses, and those a stage's setters write
Columns == DOMAIN NewRow("j1", 0)
StageColumns(stage) ==
    CASE stage = "hour" -> {"hour_warning_sent", "hour_warning_failure_count"}
      [] stage = "day" -> {"day_warning_sent", "day_warning_failure_count"}
      [] stage = "kill" -> {"kill_warning_sent", "kill_warning_failure_count"}
      [] stage = "periodic" -> {"last_periodic_warning"}

\* table u differs from table t at most in column c of the rows of job j
DiffersOnlyAt(t, u, j, c) ==
    /\ \A a \in Jobs \ {j} : u[a] = t[a]
    /\ DOMAIN u[j] = DOMAIN t[j]
    /\ \A i \in DOMAIN t[j] : \A d \in Columns \ {c} : u[j][i][d] = t[j][i][d]

\* each setter, applied to the table as it is, writes its one column of the
\* rows of the given job
SettersWriteOneColumn ==
    \A j \in Jobs :
       /\ \A b \in BOOLEAN :
             /\ DiffersOnlyAt(notif_statuses, SetHourWarningSent(notif_statuses, j, b),
                              j, "hour_warning_sent")
             /\ DiffersOnlyAt(notif_statuses, SetDayWarningSent(notif_statuses, j, b),
                              j, "day_warning_sent")
             /\ DiffersOnlyAt(notif_statuses, SetKillWarningSent(notif_statuses, j, b),
                              j, "kill_warning_sent")
       /\ \A n \in 0..maxAttempts :
             /\ DiffersOnlyAt(notif_statuses, SetHourWarningFailureCount(notif_statuses, j, n),
                              j, "hour_warning_failure_count")
             /\ DiffersOnlyAt(notif_statuses, SetDayWarningFailureCount(notif_statuses, j, n),
                              j, "day_warning_failure_count")
             /\ DiffersOnlyAt(notif_statuses, SetKillWarningFailureCount(notif_statuses, j, n),
                              j, "kill_warning_failure_count")
       /\ DiffersOnlyAt(notif_statuses, UpdateLastPeriodicWarning(notif_statuses, j, now),
                        j, "last_periodic_warning")

\* what a loop body of the hour or day sweep leaves alone: the rows of the
\* other jobs, and in the rows of its job the columns of the other stages (in a
\* row it inserts they have the defaults of the schema)
WarningSweepFrame ==
    last'.op \in WarningStages
    => \A j \in Jobs :
          /\ j # last'.job => notif_statuses'[j] = notif_statuses[j]
          /\ j = last'.job =>
                \A i \in DOMAIN notif_statuses'[j] : \A c \in Columns \ StageColumns(last'.op) :
                   notif_statuses'[j][i][c] =
                      IF i \in DOMAIN notif_statuses[j]
                      THEN notif_statuses[j][i][c]
                      ELSE NewRow(j, Period(jobs[j].periodic_period))[c]

C35_TerminateOnlyListed ==
    [][(pc = "killLoop" /\ jl' # jl /\ K8sEnabled /\ last'.killInvoked)
       => /\ last'.termIssued => (last'.listed /\ last'.found /\ last'.job \in cluster)
          /\ ~last'.listed => (last'.killErr /\ ~last'.termIssued)]_vars

\* the admin listing of a job to kill has failed
C35_Witness ==
    /\ K8sEnabled
    /\ last.op = "kill"
    /\ last.killInvoked
    /\ ~last.listed
    /\ last.killErr /\ ~last.termIssued

(***************************************************************************)
(* The driver of a deployment without notification or user-directory URI   *)
(***************************************************************************)
InitUnconfigured ==
    /\ jobs = InitJobs
    /\ tools = InitTools
    /\ notif_statuses = [j \in Jobs |-> <<>>]
    /\ now = StartDate
    /\ pc = "hour"
    /\ jl = {}
    /\ cluster = Jobs
    /\ K8sEnabled \in BOOLEAN
    /\ configured = FALSE
    /\ handlers = NoHandlers
    /\ writeFaults = 0
    /\ delivered = {}
    /\ deliveries = {}
    /\ instances = NoInstances
    /\ mainLocals = NoMainLocals
    /\ last = NoStep

UnconfiguredSpec == InitUnconfigured /\ [][Next]_vars

\* the failure count of a stage in the row NotifStatuses reads, 0 without a row
CountIn(t, j, stage) == IF HasRow(t, j) THEN StoredCount(StoredRow(t, j), stage) ELSE 0

\* C36: without a notification URI or a user-directory URI sendNotif returns
\* nil and asks neither the user directory nor the notification service, so a
\* loop body of the hour, day or kill stage that gets to its notification
\* sends nothing, leaves the failure count of the stage as it is and sets the
\* sent flag of the stage (the flag is true afterwards unless that write fails)
C36_UnconfiguredMarksSent ==
    [][(InLoop /\ jl' # jl /\ last'.op \in OneShot /\ last'.sendInvoked)
       => /\ ~last'.sendErr /\ ~last'.accepted /\ last'.lookup = "none"
          /\ delivered' = delivered
          /\ ~last'.cntWrite
          /\ CountIn(notif_statuses', last'.job, last'.op)
                = CountIn(notif_statuses, last'.job, last'.op)
          /\ last'.sentWrite
          /\ ~last'.sentErr
                => SentFlag(StoredRow(notif_statuses', last'.job), last'.op)]_vars

\* the first hour touch of a job has set the flag with nothing sent
C36_Witness ==
    /\ ~configured
    /\ last.op = "hour"
    /\ last.sendInvoked /\ last.sentWrite /\ ~last.sentErr
    /\ StoredRow(notif_statuses, last.job).hour_warning_sent
    /\ StoredRow(notif_statuses, last.job).hour_warning_failure_count = 0
    /\ delivered = {}

(***************************************************************************)
(* The loop bodies run again and again on a store that fails some writes   *)
(***************************************************************************)
\* as many failed writes as there are attempts
MaxStoreFaults == maxAttempts

\* j1 is inside the hour and day windows, or at its planned end date
InitStoreFault ==
    /\ jobs = InitJobs
    /\ tools = InitTools
    /\ notif_statuses = [j \in Jobs |-> <<>>]
    /\ now \in {StartDate, InitJobs["j1"].planned_end_date}
    /\ pc = "hour"
    /\ jl = {}
    /\ cluster = Jobs
    /\ K8sEnabled \in BOOLEAN
    /\ configured = TRUE
    /\ handlers = NoHandlers
    /\ writeFaults = 0
    /\ delivered = {}
    /\ deliveries = {}
    /\ instances = NoInstances
    /\ mainLocals = NoMainLocals
    /\ last = NoStep

\* the effect of one loop body on the table, with its failed writes counted
CommitFaulty(res) ==
    /\ writeFaults + Faults(res.log) <= MaxStoreFaults
    /\ writeFaults' = writeFaults + Faults(res.log)
    /\ notif_statuses' = res.table
    /\ last' = res.log
    /\ delivered' = IF res.log.op = "periodic" /\ res.log.accepted
                    THEN delivered \cup {<<res.log.job, now>>}
                    ELSE delivered
    /\ UNCHANGED <<jobs, tools, now, pc, jl, cluster, K8sEnabled, configured, handlers,
                   deliveries, instances, mainLocals>>

\* a loop body of sendWarning for a candidate of the hour or day stage, in one
\* iteration of the driver or another
WarningBody ==
    \E key \in WarningKeys, o \in WarningOutcomes :
       \E j \in JobKillWarnings(jobs, now, MinutesOf(key)) :
          CommitFaulty(sendWarningJob(notif_statuses, j, jobs[j].periodic_period, key,
                                      configured, o))

\* a body of the kill loop for a job past its planned end date
KillBody ==
    \E o \in Outcomes :
       \E j \in JobsToKill(jobs, now) :
          CommitFaulty(killJobBody(notif_statuses, j, jobs[j].periodic_period,
                                   K8sEnabled, j \in cluster, configured, o))

\* a body of the loop of sendPeriodic for a candidate of the periodic query
PeriodicBody ==
    \E o \in WarningOutcomes :
       \E j \in JobPeriodicWarnings(jobs, notif_statuses, now) :
          CommitFaulty(sendPeriodicJob(notif_statuses, j, jobs[j], now, configured, o))

\* time.Sleep(time.Second * 10) between two iterations, once j1 is at its
\* planned end date
sleepSeconds == 10
MaxSleeps == 2
SleepPasses ==
    /\ now >= InitJobs["j1"].planned_end_date
    /\ now + sleepSeconds <= InitJobs["j1"].planned_end_date + MaxSleeps * sleepSeconds
    /\ now' = now + sleepSeconds
    /\ UNCHANGED <<jobs, tools, notif_statuses, pc, jl, cluster, K8sEnabled, configured,
                   handlers, writeFaults, delivered, deliveries, instances, mainLocals, last>>

StoreFaultSpec ==
    InitStoreFault /\ [][WarningBody \/ KillBody \/ PeriodicBody \/ SleepPasses]_vars

\* C37: the hour, day and kill failure counts of every row are between 0 and
\* maxAttempts, also when writes of a count or of a sent flag fail
C37_CountsWithinAttempts ==
    \A j \in Jobs :
       HasRow(notif_statuses, j)
       => \A stage \in OneShot :
             StoredCount(StoredRow(notif_statuses, j), stage) \in 0..maxAttempts

\* C38: two reminders of a job that the notification service has accepted are
\* more than the period of the job apart, also when the write of
\* last_periodic_warning after a reminder fails
C38_RemindersAPeriodApart ==
    \A x \in delivered, y \in delivered :
       (x[1] = y[1] /\ x[2] < y[2])
       => y[2] - x[2] > Period(jobs[x[1]].periodic_period)

\* C39: a job whose planned_end_date is NULL is no candidate of the hour, day
\* or kill sweep, and no loop body of these sweeps runs for it: it is neither
\* warned of its termination nor terminated
C39_NoEndDateNoSweep ==
    /\ pc \in {"hourLoop", "dayLoop", "killLoop"}
          => \A j \in jl : jobs[j].planned_end_date # Null
    /\ last.op \in OneShot => jobs[last.job].planned_end_date # Null

\* the kill sweep has selected a job while a Running job without a planned
\* end date is left out
C39_Witness ==
    /\ pc = "killLoop"
    /\ jl # {}
    /\ \E j \in Jobs \ jl : jobs[j].status = "Running" /\ jobs[j].planned_end_date = Null

\* C40: enforceLimit sends the time limit warning only for a job that has at
\* most warnWithinMinutes left until StartOn + TimeLimit
C40_WarnedOnlyNearLimit ==
    (last.op = "enforceLimit" /\ last.warned)
    => (TimeOfMillis(last.StartOn) + ParseDuration(last.TimeLimit)) - last.n
          <= warnWithinMinutes * 60 * MicrosPerSecond

====
